---------------------------- MODULE Spec2Model ----------------------------
(***************************************************************************)
(* Matching engine of the magnetic-contract order book (package match).   *)
(*                                                                         *)
(* The engine (Engine.HasMatchedTx, Engine.NextMatchedTx and the helpers   *)
(* they call) is translated from the engine source.  OrderTable, the       *)
(* Order constructor and the P2WMC script codec are collaborators whose    *)
(* source is not among the files at hand; they follow the written          *)
(* specification (sections 3, 4.1 and 4.4).                                *)
(*                                                                         *)
(* Sequences are 1-based here and 0-based in Go: a leg index i of the      *)
(* model is index i-1 of the code.  Output positions written into a        *)
(* witness keep the code's 0-based value.                                  *)
(***************************************************************************)
EXTENDS Integers, Sequences, FiniteSets, TLC

VARIABLES orderTable, txCount, last, calls, consensusResult, keeper, manager

vars == <<orderTable, txCount, last, calls, consensusResult, keeper, manager>>

---------------------------------------------------------------------------
(* Bounds of the model *)

\* amounts of the resting orders range over 1..MaxAmount
MaxAmount == 2
\* ratio numerators and denominators range over 1..MaxRatio
MaxRatio == 2
\* resting orders per trade pair in the initial book
MaxDepth == 1
\* resting orders in the whole initial book
MaxOrders == 2
\* the same four bounds for the wider books
WideAmount == 3
WideRatio == 3
WideDepth == 2
WideOrders == 3
\* number of trade pairs in a ring handed to the engine
MaxRing == 2
\* successful matches in one behaviour
MaxTx == 2
\* width of the machine integers: uint64/int64 are scaled to WordBits bits
WordBits == 16
\* largest numerator or denominator of a ratio in the books of two orders
MaxFineRatio == 9
\* the amount of the first order of a ring of three legs ranges over
\* 1..RingAmount, the amounts of the others over 1..MaxAmount
RingAmount == 4
\* callers that share one engine, each calling NextMatchedTx once
MaxCallers == 2

---------------------------------------------------------------------------
(* Program constants *)

\* maxFeeRate = 0.05, as a percentage
MaxFeeRatePercent == 5
\* contract.PartialTradeClauseSelector
PartialTradeClauseSelector == 0
\* contract.FullTradeClauseSelector
FullTradeClauseSelector == 1

Assets == {"X", "Y"}

SellerPrograms == {"p1", "p2"}

---------------------------------------------------------------------------
(* Machine integers *)

UintMod == 2 ^ WordBits

IntMax == 2 ^ (WordBits - 1)

\* int64(u) of an unsigned value
ToInt64(u) == IF u >= IntMax THEN u - UintMod ELSE u

\* uint64(i) of a signed value
ToUint64(i) == i % UintMod

\* a signed result reduced to the machine width
WrapInt64(x) == ((x + IntMax) % UintMod) - IntMax

\* Go's integer division truncates toward zero
GoDiv(a, b) ==
    IF (a >= 0) = (b > 0)
    THEN (IF a >= 0 THEN a ELSE -a) \div (IF b > 0 THEN b ELSE -b)
    ELSE -((IF a >= 0 THEN a ELSE -a) \div (IF b > 0 THEN b ELSE -b))

MinUint64(a, b) == IF a < b THEN a ELSE b

---------------------------------------------------------------------------
(* float64: a positive normal value is man * 2^exp, its 53-bit significand *)
(* man kept as two limbs <<high, low>> of LimbBits bits                     *)

\* bits of one limb of a significand
LimbBits == 27

Limb == 2 ^ LimbBits

\* the significand 2^52, the smallest one
LeastMan == <<2 ^ (LimbBits - 2), 0>>

\* the significand 2^53 - 1, the largest one
GreatestMan == <<2 ^ (LimbBits - 1) - 1, Limb - 1>>

\* quotient bits computed after the leading one
FractionBits == 2 * LimbBits - 2

ManLess(a, b) == a[1] < b[1] \/ (a[1] = b[1] /\ a[2] < b[2])

ManDouble(a) == <<2 * a[1] + (2 * a[2]) \div Limb, (2 * a[2]) % Limb>>

ManSub(a, b) ==
    IF a[2] >= b[2]
    THEN <<a[1] - b[1], a[2] - b[2]>>
    ELSE <<a[1] - b[1] - 1, a[2] + Limb - b[2]>>

ManInc(a) == IF a[2] = Limb - 1 THEN <<a[1] + 1, 0>> ELSE <<a[1], a[2] + 1>>

RECURSIVE BitLen(_)
BitLen(n) == IF n = 0 THEN 0 ELSE 1 + BitLen(n \div 2)

\* float64(n) of an integer 0 < n < 2^(LimbBits - 1): exact
Float64(n) ==
    [man |-> <<n * 2 ^ (LimbBits - 1 - BitLen(n)), 0>>,
     exp |-> BitLen(n) - 2 * LimbBits + 1]

\* one step of the long division of a remainder by st.d: one more bit of st.q
QuotientStep(st, r2, q2) ==
    IF ManLess(r2, st.d)
    THEN [q |-> q2, r |-> r2, d |-> st.d, k |-> st.k - 1]
    ELSE [q |-> ManInc(q2), r |-> ManSub(r2, st.d), d |-> st.d, k |-> st.k - 1]

Mans == Nat \X Nat

\* first.k more bits of the quotient
QuotientBits(first) ==
    LET Bits[st \in [q : Mans, r : Mans, d : Mans, k : Nat]] ==
            IF st.k = 0
            THEN st
            ELSE Bits[QuotientStep(st, ManDouble(st.r), ManDouble(st.q))]
    IN  Bits[first]

\* round to nearest, ties to even
RoundUp(q, twice, d) == ManLess(d, twice) \/ (twice = d /\ q[2] % 2 = 1)

Float64Round(qr, d, exp) ==
    IF ~RoundUp(qr.q, ManDouble(qr.r), d)
    THEN [man |-> qr.q, exp |-> exp]
    ELSE IF qr.q = GreatestMan
         THEN [man |-> LeastMan, exp |-> exp + 1]
         ELSE [man |-> ManInc(qr.q), exp |-> exp]

Float64Quotient(first, d, exp) ==
    Float64Round(QuotientBits([q |-> <<0, 1>>, r |-> ManSub(first, d), d |-> d,
                               k |-> FractionBits]), d, exp)

\* x / y
Float64Div(x, y) ==
    IF ManLess(x.man, y.man)
    THEN Float64Quotient(ManDouble(x.man), y.man, x.exp - y.exp - FractionBits - 1)
    ELSE Float64Quotient(x.man, y.man, x.exp - y.exp - FractionBits)

\* x < y
Float64Less(x, y) ==
    x.exp < y.exp \/ (x.exp = y.exp /\ ManLess(x.man, y.man))

\* float64(p) / float64(q) for the ratio terms of the model, tabulated once
Float64Ratio ==
    [r \in (1..MaxFineRatio) \X (1..MaxFineRatio) |->
        Float64Div(Float64(r[1]), Float64(r[2]))] @@ <<>>

\* 1 / x for the rates of the model, tabulated once
Float64Reciprocal ==
    [x \in {Float64Ratio[r] : r \in DOMAIN Float64Ratio} |->
        Float64Div(Float64(1), x)] @@ <<>>

---------------------------------------------------------------------------
(* uint64 at full width: three limbs <<top, high, low>> of LimbBits bits,   *)
(* the top one of Uint64Bits - 2 * LimbBits bits                            *)

Uint64Bits == 64

TopMod == 2 ^ (Uint64Bits - 2 * LimbBits)

\* the uint64 of a number below 2^LimbBits
Big(n) == <<0, 0, n>>

BigLess(a, b) ==
    \/ a[1] < b[1]
    \/ a[1] = b[1] /\ (a[2] < b[2] \/ (a[2] = b[2] /\ a[3] < b[3]))

\* limbs after the carries (or borrows) have moved up; the top limb takes all
Carry(t, h, l) ==
    <<t + (h + l \div Limb) \div Limb, (h + l \div Limb) % Limb, l % Limb>>

BigAdd(a, b) == Carry(a[1] + b[1], a[2] + b[2], a[3] + b[3])

BigSub(a, b) == Carry(a[1] - b[1], a[2] - b[2], a[3] - b[3])

BigInc(a) == Carry(a[1], a[2], a[3] + 1)

\* a * r for a small r
BigMulSmall(a, r) == Carry(a[1] * r, a[2] * r, a[3] * r)

\* the result of a uint64 operation, modulo 2^Uint64Bits
WrapUint64(a) == <<a[1] % TopMod, a[2], a[3]>>

Uint64Add(a, b) == WrapUint64(BigAdd(a, b))

Uint64Sub(a, b) == WrapUint64(BigSub(a, b))

BigBitLen(a) ==
    IF a[1] > 0
    THEN 2 * LimbBits + BitLen(a[1])
    ELSE IF a[2] > 0 THEN LimbBits + BitLen(a[2]) ELSE BitLen(a[3])

\* a * 2^s, for a result of at most three limbs
ShiftLeftBits(a, m) ==
    <<a[1] * 2 ^ m + a[2] \div 2 ^ (LimbBits - m),
      (a[2] % 2 ^ (LimbBits - m)) * 2 ^ m + a[3] \div 2 ^ (LimbBits - m),
      (a[3] % 2 ^ (LimbBits - m)) * 2 ^ m>>

ShiftLeftLimbs(a, k) ==
    IF k = 0 THEN a ELSE IF k = 1 THEN <<a[2], a[3], 0>> ELSE <<a[3], 0, 0>>

ShiftLeft(a, s) == ShiftLeftBits(ShiftLeftLimbs(a, s \div LimbBits), s % LimbBits)

\* floor(a / 2^s)
ShiftRightBits(a, m) ==
    <<a[1] \div 2 ^ m,
      (a[1] % 2 ^ m) * 2 ^ (LimbBits - m) + a[2] \div 2 ^ m,
      (a[2] % 2 ^ m) * 2 ^ (LimbBits - m) + a[3] \div 2 ^ m>>

ShiftRightLimbs(a, k) ==
    IF k = 0 THEN a
    ELSE IF k = 1 THEN <<0, a[1], a[2]>>
    ELSE IF k = 2 THEN <<0, 0, a[1]>> ELSE <<0, 0, 0>>

ShiftRight(a, s) == ShiftRightBits(ShiftRightLimbs(a, s \div LimbBits), s % LimbBits)

\* a / 2^s rounded to the nearest integer, ties to even, given q = floor(a / 2^s)
RoundedShift(a, s, q) ==
    IF \/ BigLess(ShiftLeft(Big(1), s - 1), BigSub(a, ShiftLeft(q, s)))
       \/ BigSub(a, ShiftLeft(q, s)) = ShiftLeft(Big(1), s - 1) /\ q[3] % 2 = 1
    THEN BigInc(q)
    ELSE q

\* the float64 of a rounded significand q, which may have reached 2^53
Float64Normal(q, exp) ==
    IF BigBitLen(q) > FractionBits + 1
    THEN [man |-> LeastMan, exp |-> exp + 1]
    ELSE [man |-> <<q[2], q[3]>>, exp |-> exp]

\* the float64 nearest to v * 2^exp, for v > 0 of len bits
Float64Nearest(v, exp, len) ==
    IF len <= FractionBits + 1
    THEN [man |-> <<ShiftLeft(v, FractionBits + 1 - len)[2],
                    ShiftLeft(v, FractionBits + 1 - len)[3]>>,
          exp |-> exp - (FractionBits + 1 - len)]
    ELSE Float64Normal(RoundedShift(v, len - FractionBits - 1,
                                    ShiftRight(v, len - FractionBits - 1)),
                       exp + len - FractionBits - 1)

\* float64(amount) of a uint64 amount > 0
Float64OfUint64(amount) == Float64Nearest(amount, 0, BigBitLen(amount))

\* x * float64(r) for a small integer r > 0
Float64Times(x, r) ==
    Float64Nearest(BigMulSmall(<<0, x.man[1], x.man[2]>>, r), x.exp,
                   BigBitLen(BigMulSmall(<<0, x.man[1], x.man[2]>>, r)))

\* v / 2^s rounded up, given q = floor(v / 2^s)
CeilShift(v, s, q) == IF ShiftLeft(q, s) = v THEN q ELSE BigInc(q)

\* uint64(math.Ceil(x)) of a float64 0 < x < 2^Uint64Bits
CeilToUint64(x) ==
    IF x.exp >= 0
    THEN ShiftLeft(<<0, x.man[1], x.man[2]>>, x.exp)
    ELSE IF -x.exp > FractionBits
         THEN Big(1)
         ELSE CeilShift(<<0, x.man[1], x.man[2]>>, -x.exp,
                        ShiftRight(<<0, x.man[1], x.man[2]>>, -x.exp))

\* bits of the pieces a limb is cut into for a division
ChunkBits == LimbBits \div 3

Chunk == 2 ^ ChunkBits

\* (r * 2^LimbBits + x) divided by d, for r < d
DivLimb(r, x, d) ==
    LET x1 == r * Chunk + (x \div (Chunk * Chunk))
        x2 == (x1 % d) * Chunk + ((x \div Chunk) % Chunk)
        x3 == (x2 % d) * Chunk + (x % Chunk)
    IN  [q |-> ((x1 \div d) * Chunk + x2 \div d) * Chunk + x3 \div d, r |-> x3 % d]

\* quotient and remainder of a by a small d, given the division of its high limb
BigDivModLow(a, d, h) ==
    [q |-> <<a[1] \div d, h.q, DivLimb(h.r, a[3], d).q>>,
     r |-> DivLimb(h.r, a[3], d).r]

BigDivMod(a, d) == BigDivModLow(a, d, DivLimb(a[1] % d, a[2], d))

\* ceil(a / d)
CeilDivOf(dm) == IF dm.r = 0 THEN dm.q ELSE BigInc(dm.q)

CeilDiv(a, d) == CeilDivOf(BigDivMod(a, d))

---------------------------------------------------------------------------
(* Script codec: programs, P2WMC arguments *)

PlainProgram(name) ==
    [kind |-> "plain", asset |-> "-", num |-> 0, den |-> 0, seller |-> name]

nodeProgram == PlainProgram("node")

BadProgram ==
    [kind |-> "bad", asset |-> "-", num |-> 0, den |-> 0, seller |-> "-"]

P2WMCProgram(args) ==
    [kind |-> "p2wmc", asset |-> args.RequestedAsset,
     num |-> args.RatioNumerator, den |-> args.RatioDenominator,
     seller |-> args.SellerProgram.seller]

MagneticContractArgs(asset, num, den, sellerName) ==
    [RequestedAsset |-> asset, RatioNumerator |-> num,
     RatioDenominator |-> den, SellerProgram |-> PlainProgram(sellerName)]

IsP2WMCScript(prog) == prog.kind = "p2wmc"

DecodeP2WMCProgram(prog) ==
    IF IsP2WMCScript(prog)
    THEN [ok |-> TRUE,
          args |-> MagneticContractArgs(prog.asset, prog.num, prog.den, prog.seller)]
    ELSE [ok |-> FALSE, args |-> MagneticContractArgs("-", 0, 0, "-")]

---------------------------------------------------------------------------
(* Orders and trade pairs *)

TradePair(from, to) == [FromAssetID |-> from, ToAssetID |-> to]

TradePairs == {TradePair(a, b) : a, b \in Assets} \ {TradePair(a, a) : a \in Assets}

\* rate (derived): ratioDenominator/ratioNumerator, a float64
OrderRate(args) == Float64Ratio[<<args.RatioDenominator, args.RatioNumerator>>]

MovUtxo(sourceID, sourcePos, amount, prog) ==
    [SourceID |-> sourceID, SourcePos |-> sourcePos, Amount |-> amount,
     ControlProgram |-> prog]

NewOrder(from, sourceID, sourcePos, amount, prog) ==
    LET args == DecodeP2WMCProgram(prog).args
    IN  [FromAssetID |-> from, ToAssetID |-> args.RequestedAsset,
         Rate |-> OrderRate(args),
         Utxo |-> MovUtxo(sourceID, sourcePos, amount, prog)]

\* an order whose stored locking script is not a magnetic contract
CorruptOrder(tradePair, sourceID, sourcePos, amount) ==
    [FromAssetID |-> tradePair.FromAssetID, ToAssetID |-> tradePair.ToAssetID,
     Rate |-> Float64Ratio[<<1, 1>>],
     Utxo |-> MovUtxo(sourceID, sourcePos, amount, BadProgram)]

GetTradePair(order) == TradePair(order.FromAssetID, order.ToAssetID)

---------------------------------------------------------------------------
(* Transactions *)

NoTx == [Inputs |-> <<>>, Outputs |-> <<>>]

NewSpendInput(sourceID, assetID, amount, sourcePos, prog) ==
    [SourceID |-> sourceID, SourcePos |-> sourcePos, AssetID |-> assetID,
     Amount |-> amount, ControlProgram |-> prog, Arguments |-> <<>>]

NewIntraChainOutput(assetID, amount, prog) ==
    [AssetID |-> assetID, Amount |-> amount, ControlProgram |-> prog]

\* NewOrderFromOutput(tx, i): the order resting on output i of transaction txID
NewOrderFromOutput(tx, txID, i) ==
    LET output == tx.Outputs[i]
        dec == DecodeP2WMCProgram(output.ControlProgram)
    IN  IF dec.ok
        THEN [err |-> "",
              order |-> NewOrder(output.AssetID, txID, i - 1, output.Amount,
                                 output.ControlProgram)]
        ELSE [err |-> "ScriptDecodeError",
              order |-> CorruptOrder(TradePair(output.AssetID, output.AssetID),
                                     txID, i - 1, output.Amount)]

---------------------------------------------------------------------------
(* OrderTable: per trade pair, the resting orders, best price first *)

PeekOrder(table, tradePair) == table[tradePair][1]

HasOrder(table, tradePair) == Len(table[tradePair]) > 0

PopOrder(table, tradePair) ==
    IF HasOrder(table, tradePair)
    THEN [table EXCEPT ![tradePair] = Tail(@)]
    ELSE table

\* the number of resting orders that stay ahead of a new order of rate r
RankOf(orders, r) ==
    Cardinality({k \in 1..Len(orders) : ~Float64Less(r, orders[k].Rate)})

InsertAt(orders, k, order) ==
    SubSeq(orders, 1, k) \o <<order>> \o SubSeq(orders, k + 1, Len(orders))

AddOrder(table, order) ==
    IF ~DecodeP2WMCProgram(order.Utxo.ControlProgram).ok
    THEN [err |-> "ScriptDecodeError", table |-> table]
    ELSE LET tp == GetTradePair(order)
         IN  [err |-> "",
              table |-> [table EXCEPT
                            ![tp] = InsertAt(@, RankOf(@, order.Rate), order)]]

---------------------------------------------------------------------------
(* Engine: ring validation and the crossing probe *)

\* variant: the opposite is the order before, not the order after
getOppositeIndexBefore(size, selfIdx) == IF selfIdx <= 1 THEN size ELSE selfIdx - 1

getOppositeIndex(size, selfIdx) == IF selfIdx >= size THEN 1 ELSE selfIdx + 1

\* variant: only the size of the ring is checked
validateTradePairsSizeOnly(tradePairs) ==
    IF Len(tradePairs) < 2 THEN "size of trade pairs at least 2" ELSE ""

validateTradePairs(tradePairs) ==
    IF Len(tradePairs) < 2
    THEN "size of trade pairs at least 2"
    ELSE IF \E i \in 1..Len(tradePairs) :
                tradePairs[i].ToAssetID #
                    tradePairs[getOppositeIndex(Len(tradePairs), i)].FromAssetID
         THEN "specified trade pairs is invalid"
         ELSE ""

\* the best order of every leg, or the empty sequence when some leg has none
peekOrders(table, tradePairs) ==
    IF \E i \in 1..Len(tradePairs) : ~HasOrder(table, tradePairs[i])
    THEN <<>>
    ELSE [i \in 1..Len(tradePairs) |-> PeekOrder(table, tradePairs[i])]

canNotBeMatched(order, oppositeOrder) ==
    Float64Less(Float64Reciprocal[order.Rate], oppositeOrder.Rate)

HasMatchedTx(table, tradePairs) ==
    IF validateTradePairs(tradePairs) # ""
    THEN FALSE
    ELSE LET orders == peekOrders(table, tradePairs)
         IN  IF Len(orders) = 0
             THEN FALSE
             ELSE ~(\E i \in 1..Len(orders) :
                      canNotBeMatched(orders[i],
                                      orders[getOppositeIndex(Len(orders), i)]))

---------------------------------------------------------------------------
(* Engine: amounts of one leg *)

\* uint64(int64(fromAmount) * RatioNumerator / RatioDenominator)
calcRequestAmount(fromAmount, contractArg) ==
    ToUint64(GoDiv(WrapInt64(ToInt64(fromAmount) * contractArg.RatioNumerator),
                   contractArg.RatioDenominator))

\* uint64(math.Ceil(float64(receiveAmount) * float64(den) / float64(num))):
\* the float64 quotient is exact enough for the ceiling to be the integer
\* ceiling for every operand below 2^WordBits
CalcShouldPayAmount(receiveAmount, contractArg) ==
    (receiveAmount * contractArg.RatioDenominator + contractArg.RatioNumerator - 1)
        \div contractArg.RatioNumerator

\* int64(math.Ceil(float64(shouldPayAmount) * maxFeeRate)); the float64 product
\* gives the integer ceiling for every operand below 2^WordBits
CalcMaxFeeAmount(shouldPayAmount) ==
    (shouldPayAmount * MaxFeeRatePercent + 99) \div 100

\* variant: the position is the index of the leg, not of its receive output
setMatchTxArgumentsLegIndex(txData, i, isPartialTrade, position, receiveAmounts) ==
    LET arguments ==
            IF isPartialTrade
            THEN <<ToInt64(receiveAmounts), i - 1, PartialTradeClauseSelector>>
            ELSE <<i - 1, FullTradeClauseSelector>>
    IN  [txData EXCEPT !.Inputs[i].Arguments = arguments]

setMatchTxArguments(txData, i, isPartialTrade, position, receiveAmounts) ==
    LET arguments ==
            IF isPartialTrade
            THEN <<ToInt64(receiveAmounts), position, PartialTradeClauseSelector>>
            ELSE <<position, FullTradeClauseSelector>>
    IN  [txData EXCEPT !.Inputs[i].Arguments = arguments]

addMatchTxOutput(txData, i, order, oppositeAmount) ==
    LET dec == DecodeP2WMCProgram(order.Utxo.ControlProgram)
        contractArgs == dec.args
        requestAmount == calcRequestAmount(order.Utxo.Amount, contractArgs)
        receiveAmount == MinUint64(requestAmount, oppositeAmount)
        shouldPayAmount == CalcShouldPayAmount(receiveAmount, contractArgs)
        isPartialTrade == order.Utxo.Amount > shouldPayAmount
        withArgs == setMatchTxArguments(txData, i, isPartialTrade,
                                        Len(txData.Outputs), receiveAmount)
        received == Append(withArgs.Outputs,
                           NewIntraChainOutput(order.ToAssetID, receiveAmount,
                                               contractArgs.SellerProgram))
        outputs == IF isPartialTrade
                   THEN Append(received,
                               NewIntraChainOutput(order.FromAssetID,
                                   order.Utxo.Amount - shouldPayAmount,
                                   order.Utxo.ControlProgram))
                   ELSE received
    IN  IF ~dec.ok
        THEN [err |-> "ScriptDecodeError", tx |-> txData]
        ELSE [err |-> "", tx |-> [withArgs EXCEPT !.Outputs = outputs]]

---------------------------------------------------------------------------
(* Engine: fee of a matched transaction *)

\* receiveOutputMap[program]: the index of the last output that is not a
\* magnetic contract and is locked to program, 0 when there is none
ReceiveOutputIndex(txData, prog) ==
    LET hits == {j \in 1..Len(txData.Outputs) :
                    /\ ~IsP2WMCScript(txData.Outputs[j].ControlProgram)
                    /\ txData.Outputs[j].ControlProgram = prog}
    IN  IF hits = {} THEN 0 ELSE CHOOSE j \in hits : \A k \in hits : k <= j

\* first loop over the outputs: minus the amount of the re-order
RECURSIVE ReorderAmount(_, _, _)
ReorderAmount(txData, assetID, j) ==
    IF j = 0
    THEN 0
    ELSE IF /\ IsP2WMCScript(txData.Outputs[j].ControlProgram)
            /\ txData.Outputs[j].AssetID = assetID
         THEN WrapInt64(ReorderAmount(txData, assetID, j - 1)
                            - ToInt64(txData.Outputs[j].Amount))
         ELSE ReorderAmount(txData, assetID, j - 1)

\* assetAmountMap after the first loop
InitialFees(txData) ==
    [a \in {txData.Inputs[i].AssetID : i \in 1..Len(txData.Inputs)} |->
        [maxFeeAmount |-> 0,
         payableFeeAmount |-> ReorderAmount(txData, a, Len(txData.Outputs))]]

\* body of the second loop for one input whose receive output was found
FeeOfInput(assetAmountMap, input, contractArgs, receiveOutput) ==
    LET added == [assetAmountMap EXCEPT
                     ![input.AssetID].payableFeeAmount =
                         WrapInt64(@ + ToInt64(input.Amount))]
        paid == [added EXCEPT
                    ![receiveOutput.AssetID].payableFeeAmount =
                        WrapInt64(@ - ToInt64(receiveOutput.Amount))]
    IN  [paid EXCEPT
            ![input.AssetID].maxFeeAmount =
                CalcMaxFeeAmount(CalcShouldPayAmount(receiveOutput.Amount,
                                                     contractArgs))]

\* second loop, over the inputs from input i on
RECURSIVE FeeFromInputs(_, _, _)
\* variant: the receive output is looked up by the program of the input
FeeFromInputsByControlProgram(txData, i, assetAmountMap) ==
    IF i > Len(txData.Inputs)
    THEN [err |-> "", fees |-> assetAmountMap]
    ELSE LET dec == DecodeP2WMCProgram(txData.Inputs[i].ControlProgram)
             j == ReceiveOutputIndex(txData, txData.Inputs[i].ControlProgram)
         IN  IF ~dec.ok
             THEN [err |-> "ScriptDecodeError", fees |-> assetAmountMap]
             ELSE IF j = 0
                  THEN [err |-> "the input of matched tx has no receive output",
                        fees |-> assetAmountMap]
                  ELSE FeeFromInputs(txData, i + 1,
                           FeeOfInput(assetAmountMap, txData.Inputs[i], dec.args,
                                      txData.Outputs[j]))

FeeFromInputs(txData, i, assetAmountMap) ==
    IF i > Len(txData.Inputs)
    THEN [err |-> "", fees |-> assetAmountMap]
    ELSE LET dec == DecodeP2WMCProgram(txData.Inputs[i].ControlProgram)
             j == ReceiveOutputIndex(txData, dec.args.SellerProgram)
         IN  IF ~dec.ok
             THEN [err |-> "ScriptDecodeError", fees |-> assetAmountMap]
             ELSE IF j = 0
                  THEN [err |-> "the input of matched tx has no receive output",
                        fees |-> assetAmountMap]
                  ELSE FeeFromInputs(txData, i + 1,
                           FeeOfInput(assetAmountMap, txData.Inputs[i], dec.args,
                                      txData.Outputs[j]))

\* third loop: the assets whose payable fee is zero leave the map
DropZeroFees(r) ==
    IF r.err # ""
    THEN r
    ELSE [err |-> "",
          fees |-> [a \in {b \in DOMAIN r.fees : r.fees[b].payableFeeAmount # 0} |->
                       r.fees[a]]]

CalcFeeFromMatchedTx(txData) ==
    DropZeroFees(FeeFromInputs(txData, 1, InitialFees(txData)))

\* the loop that assigns the remaining amount to the participants, from input i on
RECURSIVE AssignReminder(_, _, _, _, _)
\* variant: the loop runs over every input, also when nothing is left
AssignReminderToAll(txData, feeAssetID, i, reminder, averageAmount) ==
    IF i > Len(txData.Inputs)
    THEN [err |-> "", tx |-> txData]
    ELSE LET dec == DecodeP2WMCProgram(txData.Inputs[i].ControlProgram)
             amount == IF i = Len(txData.Inputs) THEN reminder ELSE averageAmount
         IN  IF ~dec.ok
             THEN [err |-> "ScriptDecodeError", tx |-> txData]
             ELSE AssignReminder(
                      [txData EXCEPT
                          !.Outputs = Append(@, NewIntraChainOutput(feeAssetID,
                                                    ToUint64(amount),
                                                    dec.args.SellerProgram))],
                      feeAssetID, i + 1,
                      WrapInt64(reminder - averageAmount), averageAmount)

AssignReminder(txData, feeAssetID, i, reminder, averageAmount) ==
    IF i > Len(txData.Inputs) \/ reminder <= 0
    THEN [err |-> "", tx |-> txData]
    ELSE LET dec == DecodeP2WMCProgram(txData.Inputs[i].ControlProgram)
             amount == IF i = Len(txData.Inputs) THEN reminder ELSE averageAmount
         IN  IF ~dec.ok
             THEN [err |-> "ScriptDecodeError", tx |-> txData]
             ELSE AssignReminder(
                      [txData EXCEPT
                          !.Outputs = Append(@, NewIntraChainOutput(feeAssetID,
                                                    ToUint64(amount),
                                                    dec.args.SellerProgram))],
                      feeAssetID, i + 1,
                      WrapInt64(reminder - averageAmount), averageAmount)

\* the fee output of one asset
FeeAmountOf(amount) ==
    IF amount.payableFeeAmount > amount.maxFeeAmount
    THEN amount.maxFeeAmount
    ELSE amount.payableFeeAmount

\* what is left of the payable fee of one asset above the maximum fee
ReminderOf(amount) ==
    IF amount.payableFeeAmount > amount.maxFeeAmount
    THEN WrapInt64(amount.payableFeeAmount - amount.maxFeeAmount)
    ELSE 0

\* variant: the average is not raised to 1 when the division gives 0
AverageAmountOfNoMinimum(reminder, size) == GoDiv(reminder, size)

AverageAmountOf(reminder, size) ==
    IF GoDiv(reminder, size) = 0 THEN 1 ELSE GoDiv(reminder, size)

\* one iteration of the loop over feeAssetAmountMap
FeeOutputsOfAsset(txData, feeAssetID, amount) ==
    AssignReminder(
        [txData EXCEPT
            !.Outputs = Append(@, NewIntraChainOutput(feeAssetID,
                                      ToUint64(FeeAmountOf(amount)), nodeProgram))],
        feeAssetID, 1, ReminderOf(amount),
        AverageAmountOf(ReminderOf(amount), Len(txData.Inputs)))

\* the loop over feeAssetAmountMap, whose keys Go visits in the order iteration
RECURSIVE FeeOutputs(_, _, _, _)
RECURSIVE FeeOutputsNext(_, _, _, _)
FeeOutputs(txData, fees, iteration, k) ==
    IF k > Len(iteration)
    THEN [err |-> "", tx |-> txData]
    ELSE IF iteration[k] \notin DOMAIN fees
         THEN FeeOutputs(txData, fees, iteration, k + 1)
         ELSE FeeOutputsNext(
                  FeeOutputsOfAsset(txData, iteration[k], fees[iteration[k]]),
                  fees, iteration, k)

\* the error return inside the loop over feeAssetAmountMap
FeeOutputsNext(r, fees, iteration, k) ==
    IF r.err # "" THEN r ELSE FeeOutputs(r.tx, fees, iteration, k + 1)

\* addMatchTxFeeOutput once CalcFeeFromMatchedTx has returned r
FeeOutputsFrom(txData, r, iteration) ==
    IF r.err # ""
    THEN [err |-> r.err, tx |-> txData]
    ELSE FeeOutputs(txData, r.fees, iteration, 1)

addMatchTxFeeOutput(txData, iteration) ==
    FeeOutputsFrom(txData, CalcFeeFromMatchedTx(txData), iteration)

---------------------------------------------------------------------------
(* Engine: the matched transaction and the update of the book *)

SpendOrder(txData, order) ==
    [txData EXCEPT
        !.Inputs = Append(@, NewSpendInput(order.Utxo.SourceID, order.FromAssetID,
                                 order.Utxo.Amount, order.Utxo.SourcePos,
                                 order.Utxo.ControlProgram))]

\* the loop over the orders, from leg i on
RECURSIVE AddLegs(_, _, _)
RECURSIVE AddLegsNext(_, _, _)
AddLegs(orders, i, txData) ==
    IF i > Len(orders)
    THEN [err |-> "", tx |-> txData]
    ELSE AddLegsNext(orders, i,
             addMatchTxOutput(SpendOrder(txData, orders[i]), i, orders[i],
                 orders[getOppositeIndex(Len(orders), i)].Utxo.Amount))

\* the error return inside the loop over the orders
AddLegsNext(orders, i, r) ==
    IF r.err # "" THEN r ELSE AddLegs(orders, i + 1, r.tx)

\* buildMatchTx once the loop over the orders has returned legs
BuildFees(legs, iteration) ==
    IF legs.err # "" THEN legs ELSE addMatchTxFeeOutput(legs.tx, iteration)

buildMatchTx(orders, iteration) == BuildFees(AddLegs(orders, 1, NoTx), iteration)

\* the loop over the outputs, from output i on
RECURSIVE AddPartialFrom(_, _, _, _)
RECURSIVE AddPartialNext(_, _, _, _)
AddPartialFrom(tx, txID, table, i) ==
    IF i > Len(tx.Outputs)
    THEN [err |-> "", table |-> table]
    ELSE IF ~IsP2WMCScript(tx.Outputs[i].ControlProgram)
         THEN AddPartialFrom(tx, txID, table, i + 1)
         ELSE IF NewOrderFromOutput(tx, txID, i).err # ""
              THEN [err |-> NewOrderFromOutput(tx, txID, i).err, table |-> table]
              ELSE AddPartialNext(tx, txID,
                       AddOrder(table, NewOrderFromOutput(tx, txID, i).order), i)

\* the error return inside the loop over the outputs
AddPartialNext(tx, txID, added, i) ==
    IF added.err # "" THEN added ELSE AddPartialFrom(tx, txID, added.table, i + 1)

\* variant: no continuation order is added
addPartialTradeOrderNone(tx, txID, table) == [err |-> "", table |-> table]

addPartialTradeOrder(tx, txID, table) == AddPartialFrom(tx, txID, table, 1)

\* the loop that pops the order of every trade pair, from pair i on
RECURSIVE PopOrders(_, _, _)
\* variant: the order of the last trade pair is not popped
PopOrdersButLast(table, tradePairs, i) ==
    IF i >= Len(tradePairs)
    THEN table
    ELSE PopOrders(PopOrder(table, tradePairs[i]), tradePairs, i + 1)

PopOrders(table, tradePairs, i) ==
    IF i > Len(tradePairs)
    THEN table
    ELSE PopOrders(PopOrder(table, tradePairs[i]), tradePairs, i + 1)

\* NextMatchedTx after the orders are popped and the continuation orders added
ReturnTx(tx, added) ==
    IF added.err # ""
    THEN [err |-> added.err, tx |-> NoTx, table |-> added.table]
    ELSE [err |-> "", tx |-> tx, table |-> added.table]

\* variant: the orders are popped before the transaction is built
UpdateTablePopFirst(table, tradePairs, txID, built) ==
    IF built.err # ""
    THEN [err |-> built.err, tx |-> NoTx, table |-> PopOrders(table, tradePairs, 1)]
    ELSE ReturnTx(built.tx,
             addPartialTradeOrder(built.tx, txID, PopOrders(table, tradePairs, 1)))

\* NextMatchedTx once buildMatchTx has returned built
UpdateTable(table, tradePairs, txID, built) ==
    IF built.err # ""
    THEN [err |-> built.err, tx |-> NoTx, table |-> table]
    ELSE ReturnTx(built.tx,
             addPartialTradeOrder(built.tx, txID, PopOrders(table, tradePairs, 1)))

\* NextMatchedTx once the orders are peeked
MatchOrders(table, tradePairs, txID, orders, iteration) ==
    IF Len(orders) = 0
    THEN [err |-> "no order for the specified trade pair in the order table",
          tx |-> NoTx, table |-> table]
    ELSE UpdateTable(table, tradePairs, txID, buildMatchTx(orders, iteration))

NextMatchedTx(table, tradePairs, iteration, txID) ==
    IF validateTradePairs(tradePairs) # ""
    THEN [err |-> validateTradePairs(tradePairs), tx |-> NoTx, table |-> table]
    ELSE MatchOrders(table, tradePairs, txID, peekOrders(table, tradePairs),
                     iteration)

---------------------------------------------------------------------------
(* The state machine: a book of resting orders and the calls of the engine *)

\* ratios in lowest terms, of terms up to m
RatiosUpTo(m) ==
    {r \in (1..m) \X (1..m) : \A k \in 2..m : ~(r[1] % k = 0 /\ r[2] % k = 0)}

FineRatios == RatiosUpTo(MaxFineRatio)

\* the recipients of the orders of a trade pair: up to renaming, the orders of
\* the first pair pay one recipient and those of the second pay it or another
SellersOf(tradePair) ==
    IF tradePair.FromAssetID = "X" THEN {"p1"} ELSE SellerPrograms

RestingOrder(tradePair, amount, ratio, seller) ==
    NewOrder(tradePair.FromAssetID, 0, 0, amount,
             P2WMCProgram(MagneticContractArgs(tradePair.ToAssetID,
                                               ratio[1], ratio[2], seller)))

\* the orders that may lead a trade pair when the engine is constructed: every
\* amount, ratio and recipient within the bounds, and one order whose stored
\* script does not decode
BestOrders(tradePair, bound) ==
    {RestingOrder(tradePair, amount, ratio, seller) :
        amount \in 1..bound.amount, ratio \in RatiosUpTo(bound.ratio),
        seller \in SellersOf(tradePair)}
    \cup {CorruptOrder(tradePair, 0, 0, 1)}

\* the orders that may rest behind the leading one: one order at the worst
\* price, on the first trade pair
BehindOrders(tradePair, bound) ==
    IF tradePair.FromAssetID = "X"
    THEN {RestingOrder(tradePair, 1, <<1, bound.ratio>>, "p1")}
    ELSE {}

\* best price first: the lowest rate leads
IsSortedByRate(orders) ==
    \A k \in 1..(Len(orders) - 1) : ~Float64Less(orders[k + 1].Rate, orders[k].Rate)

Books(tradePair, bound) ==
    {orders \in
        {<<>>} \cup {<<best>> : best \in BestOrders(tradePair, bound)}
               \cup {<<best>> \o behind :
                        best \in BestOrders(tradePair, bound),
                        behind \in UNION {[1..n -> BehindOrders(tradePair, bound)] :
                                             n \in 1..(bound.depth - 1)}} :
        IsSortedByRate(orders)}

\* every resting order is its own unspent output
Place(orders, base) ==
    [k \in 1..Len(orders) |-> [orders[k] EXCEPT !.Utxo.SourcePos = base + k]]

Rings == UNION {[1..n -> TradePairs] : n \in 0..MaxRing}

Callers == 1..MaxCallers

\* a caller that has not called NextMatchedTx
NoCall ==
    [pc |-> "idle", tradePairs |-> <<>>, tx |-> NoTx, txID |-> 0, next |-> 0,
     popped |-> <<>>, err |-> ""]

NoCalls == [c \in Callers |-> NoCall]

\* the orders in which Go may visit the keys of a map of assets
Iterations ==
    {it \in [1..Cardinality(Assets) -> Assets] :
        \A i, j \in 1..Cardinality(Assets) : it[i] = it[j] => i = j}

\* the parts of the node beside the matching engine: the consensus result of
\* the chain, the main chain keeper of the federation and the consensus
\* message manager
nodeVars == <<consensusResult, keeper, manager>>

engineVars == <<orderTable, txCount, calls>>

\* a consensus result before any block
NoResult ==
    [Seq |-> 0, NumOfVote |-> [k \in {} |-> 0],
     CoinbaseReward |-> [k \in {} |-> 0], BlockHash |-> <<0, <<>>>>,
     BlockHeight |-> 0]

\* a keeper that has not been constructed
NoKeeper ==
    [pc |-> "idle", chain |-> [BlockHash |-> <<0, "a">>, BlockHeight |-> 0],
     assets |-> {}, crossTransactions |-> {}, reqs |-> {}]

\* the broadcast loops of the manager
Loops == {"blockProposeMsg", "blockSignatureMsg"}

\* a manager that has not been started: NewManager
NoManager ==
    [started |-> FALSE, quit |-> FALSE, posted |-> 0,
     loops |-> [l \in Loops |->
                  [pc |-> "idle", pending |-> <<>>, handed |-> {},
                   stoppedBy |-> ""]]]

\* the node while only the engine runs
NodeIdle ==
    /\ consensusResult = NoResult
    /\ keeper = NoKeeper
    /\ manager = NoManager

\* the engine constructed over a book within bound
InitBooks(bound) ==
    /\ \E bookXY \in Books(TradePair("X", "Y"), bound),
          bookYX \in Books(TradePair("Y", "X"), bound) :
          /\ Len(bookXY) + Len(bookYX) <= bound.orders
          /\ orderTable = [tp \in TradePairs |->
                              IF tp = TradePair("X", "Y")
                              THEN Place(bookXY, 0)
                              ELSE Place(bookYX, bound.depth)]
    /\ txCount = 0
    /\ last = [op |-> "none", tradePairs |-> <<>>, table |-> orderTable,
               matched |-> FALSE, err |-> "", tx |-> NoTx]
    /\ calls = NoCalls
    /\ NodeIdle

Init ==
    InitBooks([amount |-> MaxAmount, ratio |-> MaxRatio, depth |-> MaxDepth,
               orders |-> MaxOrders])

\* variant: the probe pops the orders it looks at
CallHasMatchedTxPopping(tradePairs) ==
    /\ last' = [op |-> "HasMatchedTx", tradePairs |-> tradePairs,
                table |-> orderTable,
                matched |-> HasMatchedTx(orderTable, tradePairs),
                err |-> "", tx |-> NoTx]
    /\ orderTable' = PopOrders(orderTable, tradePairs, 1)
    /\ UNCHANGED <<txCount, calls>>
    /\ UNCHANGED nodeVars

CallHasMatchedTx(tradePairs) ==
    /\ last' = [op |-> "HasMatchedTx", tradePairs |-> tradePairs,
                table |-> orderTable,
                matched |-> HasMatchedTx(orderTable, tradePairs),
                err |-> "", tx |-> NoTx]
    /\ UNCHANGED <<orderTable, txCount, calls>>
    /\ UNCHANGED nodeVars

\* the caller's view of a call of NextMatchedTx that returned r
Returned(tradePairs, r) ==
    /\ orderTable' = r.table
    /\ txCount' = IF r.err = "" THEN txCount + 1 ELSE txCount
    /\ last' = [op |-> "NextMatchedTx", tradePairs |-> tradePairs,
                table |-> orderTable, matched |-> FALSE,
                err |-> r.err, tx |-> r.tx]
    /\ UNCHANGED calls
    /\ UNCHANGED nodeVars

CallNextMatchedTx(tradePairs, iteration) ==
    /\ txCount < MaxTx
    /\ Returned(tradePairs,
                NextMatchedTx(orderTable, tradePairs, iteration, txCount + 1))

Next ==
    \/ \E tradePairs \in Rings : CallHasMatchedTx(tradePairs)
    \/ \E tradePairs \in Rings, iteration \in Iterations :
          CallNextMatchedTx(tradePairs, iteration)

Spec == Init /\ [][Next]_vars

\* the same engine over the wider books
InitWide ==
    InitBooks([amount |-> WideAmount, ratio |-> WideRatio, depth |-> WideDepth,
               orders |-> WideOrders])

SpecWide == InitWide /\ [][Next]_vars

\* books of one order on each trade pair, over the finer ratios, and the probe
InitFine ==
    /\ \E ratioXY \in FineRatios, ratioYX \in FineRatios :
          orderTable = [tp \in TradePairs |->
                           IF tp = TradePair("X", "Y")
                           THEN <<RestingOrder(tp, 1, ratioXY, "p1")>>
                           ELSE Place(<<RestingOrder(tp, 1, ratioYX, "p2")>>, 1)]
    /\ txCount = 0
    /\ last = [op |-> "none", tradePairs |-> <<>>, table |-> orderTable,
               matched |-> FALSE, err |-> "", tx |-> NoTx]
    /\ calls = NoCalls
    /\ NodeIdle

NextFine == \E tradePairs \in Rings : CallHasMatchedTx(tradePairs)

SpecFine == InitFine /\ [][NextFine]_vars

---------------------------------------------------------------------------
(* Books of two orders with large amounts *)

\* the amounts of the two-order scenarios, in units of 100,000: 100,000,000
\* and 200,000,000
ScenarioAmounts == {1000, 2000}

\* amounts at the edge of the integer range: the largest int64, the first
\* amount that is negative as an int64, the largest uint64
EdgeAmounts == {IntMax - 1, IntMax, UintMod - 1}

\* one order on each trade pair; the order on X -> Y may offer an amount at
\* the edge of the range
InitLarge ==
    /\ \E amountXY \in ScenarioAmounts \cup EdgeAmounts,
          amountYX \in ScenarioAmounts,
          ratioXY \in RatiosUpTo(MaxRatio), ratioYX \in RatiosUpTo(MaxRatio),
          sellerYX \in SellersOf(TradePair("Y", "X")) :
          orderTable = [tp \in TradePairs |->
                           IF tp = TradePair("X", "Y")
                           THEN Place(<<RestingOrder(tp, amountXY, ratioXY, "p1")>>, 0)
                           ELSE Place(<<RestingOrder(tp, amountYX, ratioYX,
                                                     sellerYX)>>, 1)]
    /\ txCount = 0
    /\ last = [op |-> "none", tradePairs |-> <<>>, table |-> orderTable,
               matched |-> FALSE, err |-> "", tx |-> NoTx]
    /\ calls = NoCalls
    /\ NodeIdle

SpecLarge == InitLarge /\ [][Next]_vars

---------------------------------------------------------------------------
(* Rings of three legs: X -> Y -> Z -> X, one resting order on each pair *)

RingPairs == <<TradePair("X", "Y"), TradePair("Y", "Z"), TradePair("Z", "X")>>

RingSellers == <<"p1", "p2", "p3">>

\* ratios of the orders of a ring: par, a half and the double
RingRatios == {<<1, 1>>, <<1, 2>>, <<2, 1>>}

RingLegs == 1..Len(RingPairs)

\* the table that holds order legOrders[i] on pair i of the ring
RingTable(legOrders) ==
    [tp \in {RingPairs[i] : i \in RingLegs} |->
        LET i == CHOOSE k \in RingLegs : RingPairs[k] = tp
        IN  Place(<<legOrders[i]>>, i - 1)]

\* the three-leg scenario, amounts in units of 100,000: 100,000,000 at 2:1,
\* 200,000,000 at 2:1 and 400,000,000 at 1:4
RingScenario ==
    RingTable([i \in RingLegs |->
        RestingOrder(RingPairs[i], <<1000, 2000, 4000>>[i],
                     <<(<<2, 1>>), (<<2, 1>>), (<<1, 4>>)>>[i], RingSellers[i])])

\* the three pairs in every order: the rotations of the ring close, the
\* other orders do not
RingOrders ==
    {[i \in RingLegs |-> RingPairs[order[i]]] :
        order \in {f \in [RingLegs -> RingLegs] :
                      \A i, j \in RingLegs : f[i] = f[j] => i = j}}

\* the orders in which Go may visit the keys of a map of the three assets
RingIterations ==
    {[i \in RingLegs |-> RingPairs[order[i]].FromAssetID] :
        order \in {f \in [RingLegs -> RingLegs] :
                      \A i, j \in RingLegs : f[i] = f[j] => i = j}}

InitRing ==
    /\ \/ \E amounts \in {a \in [RingLegs -> 1..RingAmount] :
                                \A i \in RingLegs : i > 1 => a[i] <= MaxAmount},
             ratios \in [RingLegs -> RingRatios] :
             orderTable = RingTable([i \in RingLegs |->
                              RestingOrder(RingPairs[i], amounts[i], ratios[i],
                                           RingSellers[i])])
       \/ orderTable = RingScenario
    /\ txCount = 0
    /\ last = [op |-> "none", tradePairs |-> <<>>, table |-> orderTable,
               matched |-> FALSE, err |-> "", tx |-> NoTx]
    /\ calls = NoCalls
    /\ NodeIdle

NextRing ==
    \/ \E tradePairs \in RingOrders : CallHasMatchedTx(tradePairs)
    \/ \E tradePairs \in RingOrders, iteration \in RingIterations :
          CallNextMatchedTx(tradePairs, iteration)

SpecRing == InitRing /\ [][NextRing]_vars

---------------------------------------------------------------------------
(* Callers sharing one engine: NextMatchedTx takes no lock, so the calls it
   makes on the OrderTable interleave with those of the other callers *)

\* NextMatchedTx up to the return of buildMatchTx
BuildAttempt(table, tradePairs, iteration) ==
    IF validateTradePairs(tradePairs) # ""
    THEN [err |-> validateTradePairs(tradePairs), tx |-> NoTx]
    ELSE IF Len(peekOrders(table, tradePairs)) = 0
         THEN [err |-> "no order for the specified trade pair in the order table",
               tx |-> NoTx]
         ELSE buildMatchTx(peekOrders(table, tradePairs), iteration)

\* the callers whose transaction is tx: equal transactions have equal hashes
SameTx(tx) == {c \in Callers : calls[c].pc # "idle" /\ calls[c].err = "" /\ calls[c].tx = tx}

\* the id (hash) of the transaction tx
TxIDOf(tx) ==
    IF SameTx(tx) # {} THEN calls[CHOOSE c \in SameTx(tx) : TRUE].txID ELSE txCount + 1

\* caller c has validated the ring, peeked the orders and built the transaction
Built(c, tradePairs, built) ==
    /\ calls' = [calls EXCEPT ![c] =
                    IF built.err # ""
                    THEN [NoCall EXCEPT !.pc = "done", !.tradePairs = tradePairs,
                                        !.err = built.err]
                    ELSE [NoCall EXCEPT !.pc = "pop", !.tradePairs = tradePairs,
                                        !.tx = built.tx, !.txID = TxIDOf(built.tx),
                                        !.next = 1]]
    /\ txCount' = IF built.err = "" /\ SameTx(built.tx) = {}
                  THEN txCount + 1 ELSE txCount
    /\ UNCHANGED <<orderTable, last>>
    /\ UNCHANGED nodeVars

BeginNextMatchedTx(c, tradePairs, iteration) ==
    /\ calls[c].pc = "idle"
    /\ Built(c, tradePairs, BuildAttempt(orderTable, tradePairs, iteration))

\* one turn of the loop that pops the order of every trade pair
PopNextOrder(c) ==
    /\ calls[c].pc = "pop"
    /\ orderTable' = PopOrder(orderTable, calls[c].tradePairs[calls[c].next])
    /\ calls' = [calls EXCEPT
                    ![c].popped =
                        IF HasOrder(orderTable, calls[c].tradePairs[calls[c].next])
                        THEN Append(@, PeekOrder(orderTable,
                                           calls[c].tradePairs[calls[c].next]))
                        ELSE @,
                    ![c].next = @ + 1,
                    ![c].pc = IF calls[c].next >= Len(calls[c].tradePairs)
                              THEN "add" ELSE "pop"]
    /\ UNCHANGED <<txCount, last>>
    /\ UNCHANGED nodeVars

\* caller c has added the continuation orders
Added(c, added) ==
    /\ orderTable' = added.table
    /\ calls' = [calls EXCEPT ![c].pc = "done", ![c].err = added.err]
    /\ UNCHANGED <<txCount, last>>
    /\ UNCHANGED nodeVars

AddAndReturn(c) ==
    /\ calls[c].pc = "add"
    /\ Added(c, addPartialTradeOrder(calls[c].tx, calls[c].txID, orderTable))

\* the callers race on the rings the engine accepts
RaceRings == {tradePairs \in Rings : validateTradePairs(tradePairs) = ""}

NextRace ==
    \/ \E c \in Callers, tradePairs \in RaceRings, iteration \in Iterations :
          BeginNextMatchedTx(c, tradePairs, iteration)
    \/ \E c \in Callers : PopNextOrder(c)
    \/ \E c \in Callers : AddAndReturn(c)
    \/ \E tradePairs \in RaceRings : CallHasMatchedTx(tradePairs)

SpecRace == Init /\ [][NextRace]_vars

---------------------------------------------------------------------------
(* Rings that list their trade pairs twice: X -> Y, Y -> X, X -> Y, Y -> X *)

TwiceRings == {ring \o ring : ring \in {r \in Rings : Len(r) = 2}}

NextTwice ==
    \/ \E tradePairs \in TwiceRings : CallHasMatchedTx(tradePairs)
    \/ \E tradePairs \in TwiceRings, iteration \in Iterations :
          CallNextMatchedTx(tradePairs, iteration)

SpecTwice == InitWide /\ [][NextTwice]_vars

---------------------------------------------------------------------------
(* DefaultFeeStrategy: the maker/taker fee policy *)

\* rate of fee in units of 10000
makerFeeRate == 0

takerFeeRate == 3

\* the 1E4 the rate is divided by
FeeRateUnits == 10000

ErrInvalidAmountOfFee == "amount of fee is invalid"

FeeRateOf(isMaker) == IF isMaker THEN makerFeeRate ELSE takerFeeRate

\* uint64(math.Ceil(float64(amount) * float64(feeRate) / 1E4))
CeilOfRate(amount, feeRate) ==
    IF amount = Big(0) \/ feeRate = 0
    THEN Big(0)
    ELSE CeilToUint64(Float64Div(Float64Times(Float64OfUint64(amount), feeRate),
                                 Float64(FeeRateUnits)))

calcFeeAmount(amount, isMaker) == CeilOfRate(amount, FeeRateOf(isMaker))

AssetAmount(assetId, amount) == [AssetId |-> assetId, Amount |-> amount]

\* the loop of Allocate over priceDiffs for a taker, from priceDiff j on: the
\* fee of a price differential of the asset is taken from it and added to fee
RECURSIVE ChargePriceDiffs(_, _, _, _)
ChargePriceDiffs(priceDiffs, assetId, fee, j) ==
    IF j > Len(priceDiffs)
    THEN [priceDiffs |-> priceDiffs, fee |-> fee]
    ELSE IF priceDiffs[j].AssetId # assetId
         THEN ChargePriceDiffs(priceDiffs, assetId, fee, j + 1)
         ELSE ChargePriceDiffs(
                  [priceDiffs EXCEPT
                      ![j].Amount = Uint64Sub(@, calcFeeAmount(@, FALSE))],
                  assetId,
                  Uint64Add(fee, calcFeeAmount(priceDiffs[j].Amount, FALSE)),
                  j + 1)

\* variant: the fee of a price differential is charged but not taken from it
AllocateOneKeepingDiffs(st, receiveAmount, fee, charged) ==
    [Receives |-> Append(st.Receives,
                         AssetAmount(receiveAmount.AssetId,
                                     Uint64Sub(receiveAmount.Amount, fee))),
     Fees |-> Append(st.Fees, AssetAmount(receiveAmount.AssetId, charged.fee)),
     priceDiffs |-> st.priceDiffs]

\* the body of the loop of Allocate for participant i, whose fee is fee
AllocateOne(st, receiveAmount, fee, charged) ==
    [Receives |-> Append(st.Receives,
                         AssetAmount(receiveAmount.AssetId,
                                     Uint64Sub(receiveAmount.Amount, fee))),
     Fees |-> Append(st.Fees, AssetAmount(receiveAmount.AssetId, charged.fee)),
     priceDiffs |-> charged.priceDiffs]

\* the price differentials and the fee of participant i after the inner loop
ChargedOf(st, receiveAmount, fee, isMaker) ==
    IF isMaker
    THEN [priceDiffs |-> st.priceDiffs, fee |-> fee]
    ELSE ChargePriceDiffs(st.priceDiffs, receiveAmount.AssetId, fee, 1)

AllocateStep(st, receiveAmount, fee, isMaker) ==
    AllocateOne(st, receiveAmount, fee, ChargedOf(st, receiveAmount, fee, isMaker))

\* the loop of Allocate over receiveAmounts, from participant i on
RECURSIVE AllocateFrom(_, _, _, _)
AllocateFrom(receiveAmounts, isMakers, i, st) ==
    IF i > Len(receiveAmounts)
    THEN st
    ELSE AllocateFrom(receiveAmounts, isMakers, i + 1,
             AllocateStep(st, receiveAmounts[i],
                          calcFeeAmount(receiveAmounts[i].Amount, isMakers[i]),
                          isMakers[i]))

\* Receives and Fees, and priceDiffs as the call leaves them
Allocate(receiveAmounts, priceDiffs, isMakers) ==
    AllocateFrom(receiveAmounts, isMakers, 1,
                 [Receives |-> <<>>, Fees |-> <<>>, priceDiffs |-> priceDiffs])

\* feeAmounts[assetId] of a Go map: the zero value when the key is missing
FeeAmountAt(feeAmounts, assetId) ==
    IF assetId \in DOMAIN feeAmounts THEN feeAmounts[assetId] ELSE Big(0)

RECURSIVE ValidateFrom(_, _, _)
ValidateFrom(receiveAmounts, feeAmounts, i) ==
    IF i > Len(receiveAmounts)
    THEN ""
    ELSE IF BigLess(calcFeeAmount(receiveAmounts[i].Amount, FALSE),
                    FeeAmountAt(feeAmounts, receiveAmounts[i].AssetId))
         THEN ErrInvalidAmountOfFee
         ELSE ValidateFrom(receiveAmounts, feeAmounts, i + 1)

Validate(receiveAmounts, feeAmounts) == ValidateFrom(receiveAmounts, feeAmounts, 1)

---------------------------------------------------------------------------
(* The fee strategy called on its own: a request, then the call it asks for *)

MaxParticipants == 2

MaxPriceDiffs == 1

\* 3390574312376667 = 25261747 * 2^27 + 24725851: three times it needs 54 bits
RoundedAmount == <<0, 25261747, 24725851>>

\* 2^64 - 1
MaxUint64 == <<TopMod - 1, Limb - 1, Limb - 1>>

\* ceil(amount * rate / 10000), computed in integers
CeilFee(amount, rate) ==
    IF rate = 0 THEN Big(0) ELSE CeilDiv(BigMulSmall(amount, rate), FeeRateUnits)

CalcAmounts ==
    {Big(0), Big(1), Big(3333), Big(3334), Big(10000), RoundedAmount, MaxUint64}

ReceiveTestAmounts == {Big(1), Big(10000), RoundedAmount}

PriceDiffAmounts == {Big(3334)}

\* fees a transaction may have charged for an asset
ChargedAmounts == {Big(0), Big(3), Big(4), CeilFee(RoundedAmount, takerFeeRate)}

AssetAmounts(amounts) ==
    {AssetAmount(assetId, amount) : assetId \in Assets, amount \in amounts}

SeqsOf(S, lo, hi) == UNION {[1..n -> S] : n \in lo..hi}

\* the receive amounts of up to MaxParticipants participants: up to renaming of
\* the assets, the first participant receives X
ReceiveAmountSeqs ==
    {receiveAmounts \in SeqsOf(AssetAmounts(ReceiveTestAmounts), 1, MaxParticipants) :
        receiveAmounts[1].AssetId = "X"}

FeeMaps == UNION {[A -> ChargedAmounts] : A \in SUBSET Assets}

FeeRequests ==
    {[call |-> "calcFeeAmount", amount |-> amount, isMaker |-> isMaker] :
        amount \in CalcAmounts, isMaker \in BOOLEAN}
    \cup
    UNION {{[call |-> "Allocate", receiveAmounts |-> receiveAmounts,
             priceDiffs |-> priceDiffs, isMakers |-> isMakers] :
                priceDiffs \in SeqsOf(AssetAmounts(PriceDiffAmounts), 0, MaxPriceDiffs),
                isMakers \in [1..Len(receiveAmounts) -> BOOLEAN]} :
            receiveAmounts \in ReceiveAmountSeqs}
    \cup
    {[call |-> "Validate", receiveAmounts |-> receiveAmounts,
      feeAmounts |-> feeAmounts] :
        receiveAmounts \in ReceiveAmountSeqs,
        feeAmounts \in FeeMaps}

InitFee ==
    /\ orderTable = [tp \in TradePairs |-> <<>>]
    /\ txCount = 0
    /\ \E request \in FeeRequests : last = [op |-> "request", request |-> request]
    /\ calls = NoCalls
    /\ NodeIdle

CallCalcFeeAmount ==
    /\ last.op = "request" /\ last.request.call = "calcFeeAmount"
    /\ last' = [op |-> "calcFeeAmount", request |-> last.request,
                fee |-> calcFeeAmount(last.request.amount, last.request.isMaker)]
    /\ UNCHANGED <<orderTable, txCount, calls>>
    /\ UNCHANGED nodeVars

\* the caller's view after Allocate returned r: the arguments as they are now
Allocated(request, r) ==
    last' = [op |-> "Allocate", request |-> request,
             receiveAmounts |-> request.receiveAmounts,
             priceDiffs |-> r.priceDiffs,
             Receives |-> r.Receives, Fees |-> r.Fees]

CallAllocate ==
    /\ last.op = "request" /\ last.request.call = "Allocate"
    /\ Allocated(last.request,
                 Allocate(last.request.receiveAmounts, last.request.priceDiffs,
                          last.request.isMakers))
    /\ UNCHANGED <<orderTable, txCount, calls>>
    /\ UNCHANGED nodeVars

CallValidate ==
    /\ last.op = "request" /\ last.request.call = "Validate"
    /\ last' = [op |-> "Validate", request |-> last.request,
                receiveAmounts |-> last.request.receiveAmounts,
                feeAmounts |-> last.request.feeAmounts,
                err |-> Validate(last.request.receiveAmounts,
                                 last.request.feeAmounts)]
    /\ UNCHANGED <<orderTable, txCount, calls>>
    /\ UNCHANGED nodeVars

\* the sum of the amounts of one asset
RECURSIVE SumOf(_, _, _)
SumOf(amounts, assetId, k) ==
    IF k = 0
    THEN Big(0)
    ELSE IF amounts[k].AssetId = assetId
         THEN BigAdd(SumOf(amounts, assetId, k - 1), amounts[k].Amount)
         ELSE SumOf(amounts, assetId, k - 1)

\* the fees of a match summed by asset, as a transaction charges them
FeesByAsset(fees) ==
    [assetId \in {fees[k].AssetId : k \in 1..Len(fees)} |->
        SumOf(fees, assetId, Len(fees))]

\* Validate called with the fees Allocate has just returned
CallValidateAllocated ==
    /\ last.op = "Allocate"
    /\ last' = [op |-> "ValidateAllocated", request |-> last.request,
                receiveAmounts |-> last.receiveAmounts,
                feeAmounts |-> FeesByAsset(last.Fees),
                err |-> Validate(last.receiveAmounts, FeesByAsset(last.Fees))]
    /\ UNCHANGED <<orderTable, txCount, calls>>
    /\ UNCHANGED nodeVars

NextFee ==
    \/ CallCalcFeeAmount
    \/ CallAllocate
    \/ CallValidate
    \/ CallValidateAllocated

SpecFee == InitFee /\ [][NextFee]_vars

---------------------------------------------------------------------------
(* What the properties speak about: the last call, its ring and its legs *)

Succeeded == last.op = "NextMatchedTx" /\ last.err = ""

Failed == last.op = "NextMatchedTx" /\ last.err # ""

\* a ring: at least two trade pairs, each requesting the asset the next offers
IsRing(tradePairs) ==
    /\ Len(tradePairs) >= 2
    /\ \A i \in 1..Len(tradePairs) :
          tradePairs[i].ToAssetID =
              tradePairs[(i % Len(tradePairs)) + 1].FromAssetID

EveryLegRests(table, tradePairs) ==
    \A i \in 1..Len(tradePairs) : Len(table[tradePairs[i]]) > 0

\* the best order of leg i when the last call was made
LegOrder(i) == last.table[last.tradePairs[i]][1]

Legs == 1..Len(last.tradePairs)

OppositeLeg(i) == (i % Len(last.tradePairs)) + 1

LegDecodes(i) == LegOrder(i).Utxo.ControlProgram.kind = "p2wmc"

Offered(i) == LegOrder(i).Utxo.Amount

Numerator(i) == LegOrder(i).Utxo.ControlProgram.num

Denominator(i) == LegOrder(i).Utxo.ControlProgram.den

Least(a, b) == IF a <= b THEN a ELSE b

\* floor(offeredAmount * ratioNumerator / ratioDenominator)
RequestAmount(i) == (Offered(i) * Numerator(i)) \div Denominator(i)

ReceiveAmount(i) == Least(RequestAmount(i), Offered(OppositeLeg(i)))

\* ceil(receiveAmount * ratioDenominator / ratioNumerator)
ShouldPayAmount(i) == -((-(ReceiveAmount(i) * Denominator(i))) \div Numerator(i))

IsPartial(i) == Offered(i) > ShouldPayAmount(i)

RestingIn(table) ==
    UNION {{table[tp][k] : k \in 1..Len(table[tp])} : tp \in DOMAIN table}

UtxoOf(order) == <<order.Utxo.SourceID, order.Utxo.SourcePos>>

\* the orders that rest on outputs of the transaction just built
NewOrders == {o \in RestingIn(orderTable) : o.Utxo.SourceID = txCount}

RECURSIVE AmountOf(_, _, _)
AmountOf(entries, assetID, k) ==
    IF k = 0
    THEN 0
    ELSE AmountOf(entries, assetID, k - 1)
            + (IF entries[k].AssetID = assetID THEN entries[k].Amount ELSE 0)

InputAmount(tx, assetID) == AmountOf(tx.Inputs, assetID, Len(tx.Inputs))

OutputAmount(tx, assetID) == AmountOf(tx.Outputs, assetID, Len(tx.Outputs))

---------------------------------------------------------------------------
(* Properties *)

\* C1: in every transaction NextMatchedTx returns, for every asset, the amounts
\* of the inputs of that asset sum to the amounts of all outputs of that asset.
C1_Conservation ==
    Succeeded =>
        \A a \in Assets : InputAmount(last.tx, a) = OutputAmount(last.tx, a)

C3_NotMatchedFails ==
    (last.op = "NextMatchedTx" /\ ~HasMatchedTx(last.table, last.tradePairs))
        => (last.err # "" /\ last.tx = NoTx)

C5_ProbeReadOnly == last.op = "HasMatchedTx" => orderTable = last.table

\* C5 witness: a probe that returned true on a ring whose legs all rest.
C5_Witness ==
    /\ last.op = "HasMatchedTx"
    /\ last.matched
    /\ EveryLegRests(last.table, last.tradePairs)

\* C6: a ring of fewer than 2 trade pairs, or one that does not close, is
\* rejected: HasMatchedTx is false, NextMatchedTx returns an invalid-ring error,
\* and no order is popped.
C6_InvalidRingRejected ==
    ~IsRing(last.tradePairs) =>
        /\ last.op = "HasMatchedTx" => ~last.matched
        /\ last.op = "NextMatchedTx" =>
              /\ last.err \in {"size of trade pairs at least 2",
                               "specified trade pairs is invalid"}
              /\ last.tx = NoTx
        /\ orderTable = last.table

\* C6 witness: NextMatchedTx was called with two trade pairs that do not close
\* while both had a resting order.
C6_Witness ==
    /\ last.op = "NextMatchedTx"
    /\ Len(last.tradePairs) = 2
    /\ ~IsRing(last.tradePairs)
    /\ EveryLegRests(last.table, last.tradePairs)

\* C7: for a ring whose leading scripts decode, HasMatchedTx is true exactly
\* when every leg has a resting order and every leg i satisfies
\* 1/rate[i] >= rate[opposite], where rate = ratioDenominator/ratioNumerator.
C7_CrossingRule ==
    (/\ last.op = "HasMatchedTx"
     /\ IsRing(last.tradePairs)
     /\ EveryLegRests(last.table, last.tradePairs) => \A i \in Legs : LegDecodes(i))
        => (last.matched <=>
               /\ EveryLegRests(last.table, last.tradePairs)
               /\ \A i \in Legs :
                     Numerator(i) * Numerator(OppositeLeg(i))
                         >= Denominator(i) * Denominator(OppositeLeg(i)))

\* order o continues leg i: same trade pair, same script (recipient and ratio),
\* same rate, and what leg i offered less what it should pay
Continues(o, i) ==
    /\ GetTradePair(o) = last.tradePairs[i]
    /\ o.Utxo.ControlProgram = LegOrder(i).Utxo.ControlProgram
    /\ o.Rate = LegOrder(i).Rate
    /\ o.Utxo.Amount = Offered(i) - ShouldPayAmount(i)

\* C8: after a successful NextMatchedTx no matched order remains in the table,
\* and the table holds a continuation order for leg i exactly when leg i is a
\* partial fill; it has the amount offered less the amount to pay and the trade
\* pair, recipient and ratio of the order it replaces.
C8_MatchedReplaced ==
    Succeeded =>
        /\ \A i \in Legs : \A o \in RestingIn(orderTable) :
              UtxoOf(o) # UtxoOf(LegOrder(i))
        /\ \A i \in Legs : IsPartial(i) <=> (\E o \in NewOrders : Continues(o, i))
        /\ \A o \in NewOrders : \E i \in Legs : IsPartial(i) /\ Continues(o, i)

\* C8 witness: a match with one partial leg and one full leg.
C8_Witness ==
    /\ Succeeded
    /\ \E i, j \in Legs : IsPartial(i) /\ ~IsPartial(j)

\* C9: the continuation order of a partial fill has strictly less than the
\* amount of the order it replaces.
C9_ContinuationShrinks ==
    Succeeded =>
        \A i \in Legs : \A o \in NewOrders :
            GetTradePair(o) = last.tradePairs[i] => o.Utxo.Amount < Offered(i)

\* C10: for every asset, the fee output paid to the node program is at most
\* ceil(shouldPayAmount * 5%) of the leg offering that asset, and is never a
\* wrapped negative amount.
C10_FeeCapped ==
    Succeeded =>
        \A k \in 1..Len(last.tx.Outputs) : \A i \in Legs :
            (/\ last.tx.Outputs[k].ControlProgram = nodeProgram
             /\ last.tx.Outputs[k].AssetID = LegOrder(i).FromAssetID)
                => /\ last.tx.Outputs[k].Amount < IntMax
                   /\ last.tx.Outputs[k].Amount * 100
                          <= ShouldPayAmount(i) * MaxFeeRatePercent + 99

\* the outputs of the legs: one receive output per input and one change output
\* per partial fill, the only outputs locked by a magnetic contract
LegOutputCount(tx) ==
    Len(tx.Inputs)
        + Cardinality({j \in 1..Len(tx.Outputs) :
                          tx.Outputs[j].ControlProgram.kind = "p2wmc"})

\* the transaction as it was before the fee outputs were appended
LegsOf(tx) == [tx EXCEPT !.Outputs = SubSeq(@, 1, LegOutputCount(tx))]

\* the outputs after those of the legs
FeePart(tx) == SubSeq(tx.Outputs, LegOutputCount(tx) + 1, Len(tx.Outputs))

\* of the first k of them, the sum of those of one asset that pay the node
\* program (toNode) or a participant (otherwise)
RECURSIVE FeePartAmount(_, _, _, _)
FeePartAmount(outputs, assetID, toNode, k) ==
    IF k = 0
    THEN 0
    ELSE FeePartAmount(outputs, assetID, toNode, k - 1)
            + (IF /\ outputs[k].AssetID = assetID
                  /\ (outputs[k].ControlProgram = nodeProgram) = toNode
               THEN outputs[k].Amount
               ELSE 0)

RemainderAmount(tx, assetID) ==
    FeePartAmount(FeePart(tx), assetID, FALSE, Len(FeePart(tx)))

RemainderIsExcess(tx, fees) ==
    \A a \in DOMAIN fees :
        fees[a].payableFeeAmount > fees[a].maxFeeAmount
            => RemainderAmount(tx, a)
                   = fees[a].payableFeeAmount - fees[a].maxFeeAmount

\* C11: for every asset whose payable fee exceeds the maximum fee, the outputs
\* that redistribute the remainder of that asset to the participants sum to
\* exactly payableFee - maxFee, whatever the ring size and the remainder.
C11_RemainderExact ==
    Succeeded => RemainderIsExcess(last.tx, CalcFeeFromMatchedTx(LegsOf(last.tx)).fees)

ExcessBelowSize(tx, fees) ==
    \E a \in DOMAIN fees :
        /\ fees[a].payableFeeAmount - fees[a].maxFeeAmount >= 1
        /\ fees[a].payableFeeAmount - fees[a].maxFeeAmount < Len(tx.Inputs)

\* C11 witness: a match of three legs, on a ring HasMatchedTx accepts, in which
\* the remainder of an asset is smaller than the number of legs.
C11_Witness ==
    /\ Succeeded
    /\ Len(last.tx.Inputs) = 3
    /\ HasMatchedTx(last.table, last.tradePairs)
    /\ ExcessBelowSize(last.tx, CalcFeeFromMatchedTx(LegsOf(last.tx)).fees)

\* C12: NextMatchedTx is deterministic: started again from the same table with
\* the same ring, it returns the same transaction, inputs, witnesses and
\* outputs in the same order, whatever order the second run visits the fee
\* map in.
C12_Deterministic ==
    Succeeded =>
        \A iteration \in Iterations :
            NextMatchedTx(last.table, last.tradePairs, iteration, txCount).tx
                = last.tx

\* what leg i pays: all it offered, or the amount it should pay when the rest
\* is re-locked
PaidAmount(i) == IF IsPartial(i) THEN ShouldPayAmount(i) ELSE Offered(i)

\* inputs less receive and change outputs of one asset over the first k legs,
\* in exact arithmetic
RECURSIVE PayableFee(_, _)
PayableFee(assetID, k) ==
    IF k = 0
    THEN 0
    ELSE PayableFee(assetID, k - 1)
            + (IF LegOrder(k).FromAssetID = assetID THEN PaidAmount(k) ELSE 0)
            - (IF LegOrder(k).ToAssetID = assetID THEN ReceiveAmount(k) ELSE 0)

\* an arithmetic step of the match leaves its integer range: the amount as an
\* int64 or its product with the numerator, or the payable fee of an asset as
\* an unsigned amount
Overflows ==
    \/ \E i \in Legs : Offered(i) * Numerator(i) >= IntMax
    \/ \E i \in Legs :
          \/ PayableFee(LegOrder(i).FromAssetID, Len(last.tradePairs)) < 0
          \/ PayableFee(LegOrder(i).FromAssetID, Len(last.tradePairs)) >= IntMax

\* C13: when an arithmetic step of a match overflows or underflows its integer
\* range, NextMatchedTx returns an error and no transaction, and the order
\* table is unchanged.
C13_OverflowFails ==
    (/\ last.op = "NextMatchedTx"
     /\ IsRing(last.tradePairs)
     /\ EveryLegRests(last.table, last.tradePairs)
     /\ \A i \in Legs : LegDecodes(i)
     /\ Overflows)
        => (last.err # "" /\ last.tx = NoTx /\ orderTable = last.table)

\* the table holds exactly two orders: order A offering amountA of X for Y at
\* ratioNumerator 2, ratioDenominator 1 (2 Y for 1 X), and order B offering
\* amountB of Y for X at ratioNumerator 1, ratioDenominator 2
IsScenarioBook(table, amountA, amountB) ==
    /\ DOMAIN table = TradePairs
    /\ Len(table[TradePair("X", "Y")]) = 1
    /\ Len(table[TradePair("Y", "X")]) = 1
    /\ table[TradePair("X", "Y")][1].Utxo.Amount = amountA
    /\ table[TradePair("X", "Y")][1].Utxo.ControlProgram.kind = "p2wmc"
    /\ table[TradePair("X", "Y")][1].Utxo.ControlProgram.num = 2
    /\ table[TradePair("X", "Y")][1].Utxo.ControlProgram.den = 1
    /\ table[TradePair("Y", "X")][1].Utxo.Amount = amountB
    /\ table[TradePair("Y", "X")][1].Utxo.ControlProgram.kind = "p2wmc"
    /\ table[TradePair("Y", "X")][1].Utxo.ControlProgram.num = 1
    /\ table[TradePair("Y", "X")][1].Utxo.ControlProgram.den = 2

\* NextMatchedTx was called on the ring [X -> Y, Y -> X] over such a table
MatchedScenario(amountA, amountB) ==
    /\ last.op = "NextMatchedTx"
    /\ last.tradePairs = <<TradePair("X", "Y"), TradePair("Y", "X")>>
    /\ IsScenarioBook(last.table, amountA, amountB)

\* the recipient program of the order of leg i
Recipient(i) == PlainProgram(LegOrder(i).Utxo.ControlProgram.seller)

HasOutput(tx, assetID, amount, prog) ==
    \E j \in 1..Len(tx.Outputs) :
        tx.Outputs[j] = NewIntraChainOutput(assetID, amount, prog)

\* the outputs locked by the script of the order of leg i: its change outputs
ChangeOutputs(tx, i) ==
    {j \in 1..Len(tx.Outputs) :
        tx.Outputs[j].ControlProgram = LegOrder(i).Utxo.ControlProgram}

\* what the node program is paid of one asset
NodeFee(tx, assetID) == FeePartAmount(tx.Outputs, assetID, TRUE, Len(tx.Outputs))

\* C16: with A offering 100,000,000 X at 1:2 and B offering 200,000,000 Y at
\* 2:1 (amounts in units of 100,000), NextMatchedTx on [X -> Y, Y -> X]
\* returns a full trade on both legs with receive outputs of 199,800,000 Y to
\* A's recipient and 99,900,000 X to B's recipient and fee outputs totalling
\* 200,000 Y and 100,000 X, and inserts no continuation order.
C16_FullTradeScenario ==
    MatchedScenario(1000, 2000) =>
        /\ last.err = ""
        /\ Len(last.tx.Inputs) = 2
        /\ \A i \in Legs :
              /\ ChangeOutputs(last.tx, i) = {}
              /\ last.tx.Inputs[i].Arguments[Len(last.tx.Inputs[i].Arguments)]
                     = FullTradeClauseSelector
        /\ HasOutput(last.tx, "Y", 1998, Recipient(1))
        /\ HasOutput(last.tx, "X", 999, Recipient(2))
        /\ NodeFee(last.tx, "Y") = 2
        /\ NodeFee(last.tx, "X") = 1
        /\ NewOrders = {}

\* leg i is filled in part: a change output under the script of its order,
\* and a continuation order in the table
PartialLeg(i) ==
    /\ ChangeOutputs(last.tx, i) # {}
    /\ \E o \in NewOrders : GetTradePair(o) = last.tradePairs[i]

\* leg i is filled in full: no change output and no continuation order
FullLeg(i) ==
    /\ ChangeOutputs(last.tx, i) = {}
    /\ \A o \in NewOrders : GetTradePair(o) # last.tradePairs[i]

\* C17 as stated: with A offering 100,000,000 X and B offering 100,000,000 Y at
\* the ratios of the full-trade scenario, B's leg is the partial fill, with a
\* change output and a continuation order, and A's leg is the full fill.
C17_PartialIsB ==
    MatchedScenario(1000, 1000) =>
        /\ last.err = ""
        /\ PartialLeg(2)
        /\ FullLeg(1)

\* C17, amended: in that scenario A's leg is the partial fill, with a change
\* output and a continuation order of A's unmatched 50,000,000 X; B's leg is
\* the full fill, with no change output and no continuation order.
C17_PartialIsA ==
    MatchedScenario(1000, 1000) =>
        /\ last.err = ""
        /\ PartialLeg(1)
        /\ FullLeg(2)
        /\ HasOutput(last.tx, "X", 500, LegOrder(1).Utxo.ControlProgram)
        /\ \E o \in NewOrders : Continues(o, 1) /\ o.Utxo.Amount = 500

\* C17 witness: NextMatchedTx has returned a transaction in that scenario.
C17_Witness == MatchedScenario(1000, 1000) /\ Succeeded

\* C18: for the three-leg ring X -> Y -> Z -> X with 100,000,000 at 2:1,
\* 200,000,000 at 2:1 and 400,000,000 at 1:4, HasMatchedTx returns true and
\* NextMatchedTx returns one transaction with three inputs, all legs full
\* fills, exactly three receive outputs and exactly three fee outputs.
C18_RingScenario ==
    (last.table = RingScenario /\ last.tradePairs = RingPairs) =>
        /\ last.op = "HasMatchedTx" => last.matched
        /\ last.op = "NextMatchedTx" =>
              /\ last.err = ""
              /\ Len(last.tx.Inputs) = 3
              /\ \A i \in Legs : ChangeOutputs(last.tx, i) = {}
              /\ LegOutputCount(last.tx) = 3
              /\ Cardinality({j \in 1..Len(last.tx.Outputs) :
                                 last.tx.Outputs[j].ControlProgram = nodeProgram}) = 3

\* the legs before leg i that are filled in part
PartialBefore(i) == {j \in 1..(i - 1) : IsPartial(j)}

\* where the receive output of leg i stands among the outputs: every leg
\* before it has one receive output, and a change output when filled in part
ReceiveIndex(i) == i + Cardinality(PartialBefore(i))

\* the receive output of leg i is locked to prog
ReceiveLockedTo(i, prog) ==
    /\ ReceiveIndex(i) <= Len(last.tx.Outputs)
    /\ last.tx.Outputs[ReceiveIndex(i)] =
           NewIntraChainOutput(last.tradePairs[i].ToAssetID, ReceiveAmount(i), prog)

WordRequestAmount(i) ==
    calcRequestAmount(Offered(i), DecodeP2WMCProgram(LegOrder(i).Utxo.ControlProgram).args)

WordReceiveAmount(i) == Least(WordRequestAmount(i), Offered(OppositeLeg(i)))

WordShouldPayAmount(i) ==
    CalcShouldPayAmount(WordReceiveAmount(i),
                        DecodeP2WMCProgram(LegOrder(i).Utxo.ControlProgram).args)

WordReceiveIndex(i) ==
    i + Cardinality({j \in 1..(i - 1) : Offered(j) > WordShouldPayAmount(j)})

SpendsLeg(i) ==
    /\ last.tx.Inputs[i].SourceID = LegOrder(i).Utxo.SourceID
    /\ last.tx.Inputs[i].SourcePos = LegOrder(i).Utxo.SourcePos
    /\ last.tx.Inputs[i].AssetID = last.tradePairs[i].FromAssetID
    /\ last.tx.Inputs[i].Amount = Offered(i)
    /\ last.tx.Inputs[i].ControlProgram = LegOrder(i).Utxo.ControlProgram

\* the output after the receive output of leg i is the change output of leg i
HasChangeOutput(i) ==
    /\ ReceiveIndex(i) + 1 <= Len(last.tx.Outputs)
    /\ last.tx.Outputs[ReceiveIndex(i) + 1] =
           NewIntraChainOutput(last.tradePairs[i].FromAssetID,
                               Offered(i) - ShouldPayAmount(i),
                               LegOrder(i).Utxo.ControlProgram)

\* the outputs under a magnetic contract: the change outputs
ContractOutputs(tx) ==
    {j \in 1..Len(tx.Outputs) : tx.Outputs[j].ControlProgram.kind = "p2wmc"}

\* C20: a transaction NextMatchedTx builds has exactly one spend input per leg;
\* leg i has a change output if and only if isPartial[i], and that output
\* carries offeredAmount[i] - shouldPayAmount[i] of fromAssetID[i] under the
\* locking script of the order being spent.
C20_ChangeOutputs ==
    Succeeded =>
        /\ Len(last.tx.Inputs) = Len(last.tradePairs)
        /\ \A i \in Legs : SpendsLeg(i)
        /\ \A i \in Legs : IsPartial(i) => HasChangeOutput(i)
        /\ ContractOutputs(last.tx) =
               {ReceiveIndex(i) + 1 : i \in {j \in Legs : IsPartial(j)}}

\* caller c has popped the orders of some legs and not yet of all
SomeLegsPopped(c) == calls[c].pc = "pop" /\ calls[c].next > 1

\* caller c has popped every order and not yet added the continuation order
\* of a leg filled in part
ContinuationPending(c) ==
    /\ calls[c].pc = "add"
    /\ \E j \in 1..Len(calls[c].tx.Outputs) :
          IsP2WMCScript(calls[c].tx.Outputs[j].ControlProgram)

\* C14: a HasMatchedTx call that runs while a NextMatchedTx is under way sees
\* the table before the match or after all its removals and insertions: it
\* never runs when only some legs are popped or a popped partial leg has no
\* continuation order yet.
C14_ReaderSeesWhole ==
    [][(\E tradePairs \in RaceRings : CallHasMatchedTx(tradePairs))
          => \A c \in Callers : ~SomeLegsPopped(c) /\ ~ContinuationPending(c)]_vars

\* the unspent outputs the transaction of caller c spends
SpentBy(c) ==
    {<<calls[c].tx.Inputs[i].SourceID, calls[c].tx.Inputs[i].SourcePos>> :
        i \in 1..Len(calls[c].tx.Inputs)}

PoppedBy(c) == {UtxoOf(calls[c].popped[k]) : k \in 1..Len(calls[c].popped)}

ReturnedTx(c) == calls[c].pc = "done" /\ calls[c].err = ""

SharePair(c, d) ==
    \E i \in 1..Len(calls[c].tradePairs), j \in 1..Len(calls[d].tradePairs) :
        calls[c].tradePairs[i] = calls[d].tradePairs[j]

\* C15: when two NextMatchedTx attempts on rings sharing a trade pair
\* interleave, no resting order is spent by both returned transactions, and
\* every order an attempt pops is one its own transaction spends.
C15_OneWriter ==
    \A c, d \in Callers :
        (c # d /\ ReturnedTx(c) /\ ReturnedTx(d) /\ SharePair(c, d)) =>
            /\ SpentBy(c) \cap SpentBy(d) = {}
            /\ PoppedBy(c) \subseteq SpentBy(c)

\* the witness of the input of leg i
Witness(i) == last.tx.Inputs[i].Arguments

\* C21: the input of a full fill has the two arguments [position, full-trade
\* selector], that of a partial fill the three arguments [receiveAmount,
\* position, partial-trade selector]; the amount argument is receiveAmount[i],
\* the two selectors differ and no other selector is produced.
C21_WitnessShape ==
    Succeeded =>
        /\ PartialTradeClauseSelector # FullTradeClauseSelector
        /\ \A i \in Legs :
              /\ IsPartial(i) =>
                    /\ Len(Witness(i)) = 3
                    /\ Witness(i)[1] = ReceiveAmount(i)
                    /\ Witness(i)[2] \in Nat
                    /\ Witness(i)[3] = PartialTradeClauseSelector
              /\ ~IsPartial(i) =>
                    /\ Len(Witness(i)) = 2
                    /\ Witness(i)[1] \in Nat
                    /\ Witness(i)[2] = FullTradeClauseSelector

\* C25: for every leg of a built transaction the engine's amounts are the
\* exact ones: requestAmount = floor(offeredAmount * ratioNumerator /
\* ratioDenominator), receiveAmount = min(requestAmount, offeredAmount of the
\* opposite leg), shouldPayAmount = ceil(receiveAmount * ratioDenominator /
\* ratioNumerator), the leg is a partial fill exactly when offeredAmount >
\* shouldPayAmount, and receiveAmount never exceeds what the opposite leg
\* offered.
C25_ExactAmounts ==
    Succeeded =>
        \A i \in Legs :
            /\ WordRequestAmount(i) = RequestAmount(i)
            /\ WordReceiveAmount(i) = ReceiveAmount(i)
            /\ WordShouldPayAmount(i) = ShouldPayAmount(i)
            /\ (Len(Witness(i)) = 3) <=> IsPartial(i)
            /\ WordReceiveIndex(i) <= Len(last.tx.Outputs)
            /\ last.tx.Outputs[WordReceiveIndex(i)].Amount = ReceiveAmount(i)
            /\ last.tx.Outputs[WordReceiveIndex(i)].Amount <= Offered(OppositeLeg(i))

\* the position argument of the witness of leg i (an index counted from 0)
Position(i) == Witness(i)[Len(Witness(i)) - 1]

\* the output at index k, counted from 0, is of assetID and locked to prog
OutputAt(k, assetID, prog) ==
    /\ k + 1 <= Len(last.tx.Outputs)
    /\ last.tx.Outputs[k + 1].AssetID = assetID
    /\ last.tx.Outputs[k + 1].ControlProgram = prog

\* the output after the receive output of leg i is a change output of leg i
ChangeFollows(i) ==
    OutputAt(Position(i) + 1, last.tradePairs[i].FromAssetID,
             LegOrder(i).Utxo.ControlProgram)

\* C26: the position argument of leg i is the index of leg i's own receive
\* output in the output list; the change output of leg i, if any, is the
\* output right after it, so the position is the leg index plus the number of
\* earlier legs that are partial fills.
C26_PositionOfReceive ==
    Succeeded =>
        \A i \in Legs :
            /\ OutputAt(Position(i), last.tradePairs[i].ToAssetID, Recipient(i))
            /\ ChangeOutputs(last.tx, i) =
                   IF ChangeFollows(i) THEN {Position(i) + 2} ELSE {}
            /\ Position(i) = (i - 1) + Cardinality({j \in 1..(i - 1) : ChangeFollows(j)})

\* C26 witness: a transaction of three legs in which a leg after a partial
\* fill has a position above its leg index.
C26_Witness ==
    /\ Succeeded
    /\ Len(last.tradePairs) = 3
    /\ \E i \in Legs : ChangeFollows(i) /\ i < 3
    /\ \E i \in Legs : Position(i) > i - 1

\* the outputs after those of the legs that pay asset assetID to a participant
RemainderOutputs(tx, assetID) ==
    SelectSeq(FeePart(tx),
              LAMBDA o : o.AssetID = assetID /\ o.ControlProgram # nodeProgram)

\* floor(remainder / n), at least 1
EvenShare(remainder, n) ==
    IF remainder \div n = 0 THEN 1 ELSE remainder \div n

\* the outputs of one asset go, in ring order, to the first count participants,
\* each of EvenShare and the last of the n participants of what is left
SharedInRingOrder(outputs, remainder, n, count) ==
    /\ Len(outputs) = count
    /\ \A k \in 1..count :
          /\ outputs[k].ControlProgram = Recipient(k)
          /\ outputs[k].Amount = IF k = n
                                 THEN remainder - (n - 1) * EvenShare(remainder, n)
                                 ELSE EvenShare(remainder, n)

RemainderToEvery(tx, fees) ==
    \A a \in DOMAIN fees :
        fees[a].payableFeeAmount > fees[a].maxFeeAmount
            => SharedInRingOrder(RemainderOutputs(tx, a),
                   fees[a].payableFeeAmount - fees[a].maxFeeAmount,
                   Len(tx.Inputs), Len(tx.Inputs))

RemainderToFirst(tx, fees) ==
    \A a \in DOMAIN fees :
        fees[a].payableFeeAmount > fees[a].maxFeeAmount
            => LET remainder == fees[a].payableFeeAmount - fees[a].maxFeeAmount
                   n == Len(tx.Inputs)
               IN  SharedInRingOrder(RemainderOutputs(tx, a), remainder, n,
                                     IF remainder >= n THEN n ELSE remainder)

\* C27 as stated: when payableFee exceeds maxFee for an asset, each of the n
\* participants gets an output of floor(remainder / n), at least 1, in ring
\* order, and the last participant's output is what is left after the others.
C27_EveryParticipant ==
    Succeeded => RemainderToEvery(last.tx, CalcFeeFromMatchedTx(LegsOf(last.tx)).fees)

\* C27 amended: when payableFee exceeds maxFee for an asset and the remainder
\* is at least n, each of the n participants gets an output of
\* floor(remainder / n) in ring order and the last one gets what is left after
\* the others; when the remainder is below n, only the first remainder
\* participants get an output, of 1 each.
C27_WhileSomethingIsLeft ==
    Succeeded => RemainderToFirst(last.tx, CalcFeeFromMatchedTx(LegsOf(last.tx)).fees)

RemainderOf(fees, remainder) ==
    \E a \in DOMAIN fees :
        fees[a].payableFeeAmount - fees[a].maxFeeAmount = remainder

\* C27 witness: a match of three legs in which the remainder of an asset is 2,
\* and so is shared by the first two participants only.
C27_Witness ==
    /\ Succeeded
    /\ Len(last.tx.Inputs) = 3
    /\ RemainderOf(CalcFeeFromMatchedTx(LegsOf(last.tx)).fees, 2)

\* C22: the fee on an amount is ceil(amount * rate / 10000) with rate 0 for a
\* maker and 3 for a taker: a maker's fee is 0 for every amount, a taker's fee
\* is 0 only for amount 0 and at least 1 for every amount >= 1, and the fee
\* never exceeds the amount.
C22_FeeIsCeiling ==
    last.op = "calcFeeAmount" =>
        /\ last.fee = CeilFee(last.request.amount,
                              IF last.request.isMaker THEN 0 ELSE 3)
        /\ last.request.isMaker => last.fee = Big(0)
        /\ ~last.request.isMaker =>
              (last.fee = Big(0) <=> last.request.amount = Big(0))
        /\ ~BigLess(last.request.amount, last.fee)

\* the fee charged for the receive asset of leg i exceeds ceil(amount * 3 / 10000)
OverCharged(receiveAmounts, feeAmounts, i) ==
    /\ receiveAmounts[i].AssetId \in DOMAIN feeAmounts
    /\ BigLess(CeilFee(receiveAmounts[i].Amount, 3),
               feeAmounts[receiveAmounts[i].AssetId])

\* C23: Validate returns the invalid-fee error if and only if for some leg the
\* fee charged for that leg's receive asset exceeds
\* ceil(receiveAmount * 3 / 10000); a charged fee at or below that cap, a fee
\* of 0 included, is accepted, and Validate changes neither argument.
C23_ValidateIffOverCap ==
    last.op = "Validate" =>
        /\ last.err \in {"", ErrInvalidAmountOfFee}
        /\ last.err = ErrInvalidAmountOfFee
              <=> \E i \in 1..Len(last.request.receiveAmounts) :
                     OverCharged(last.request.receiveAmounts,
                                 last.request.feeAmounts, i)
        /\ last.receiveAmounts = last.request.receiveAmounts
        /\ last.feeAmounts = last.request.feeAmounts

\* a leg's receive asset has no entry in the charged-fee map
MissingFee(receiveAmounts, feeAmounts) ==
    \E i \in 1..Len(receiveAmounts) : receiveAmounts[i].AssetId \notin DOMAIN feeAmounts

\* the transaction without the outputs after the first k
WithOutputs(tx, k) == [tx EXCEPT !.Outputs = SubSeq(@, 1, k)]

\* C24: both fee policies return an error, and never treat the fee as zero,
\* when a matching output is missing: CalcFeeFromMatchedTx fails when an
\* input's recipient program has no receive output, and Validate fails when a
\* leg's receive asset has no entry in the charged-fee map.
C24_MissingIsAnError ==
    /\ Succeeded => CalcFeeFromMatchedTx(WithOutputs(last.tx, 0)).err # ""
    /\ last.op = "Validate"
          /\ MissingFee(last.request.receiveAmounts, last.request.feeAmounts)
          => last.err # ""

\* participants of the last call of Allocate
Participants == 1..Len(last.request.receiveAmounts)

\* entry i of Receives and of Fees is in participant i's receive asset
InReceiveAsset(i) ==
    /\ last.Receives[i].AssetId = last.request.receiveAmounts[i].AssetId
    /\ last.Fees[i].AssetId = last.request.receiveAmounts[i].AssetId

\* C28: Allocate returns Receives and Fees each with exactly one entry per
\* participant, entry i in participant i's receive asset; for a maker Fees[i]
\* is 0 and Receives[i] equals receiveAmounts[i]; for a taker Receives[i]
\* equals receiveAmounts[i] minus ceil(receiveAmounts[i] * 3 / 10000) and never
\* underflows; the receiveAmounts argument is not modified.
C28_OneEntryPerParticipant ==
    last.op = "Allocate" =>
        /\ Len(last.Receives) = Len(last.request.receiveAmounts)
        /\ Len(last.Fees) = Len(last.request.receiveAmounts)
        /\ \A i \in Participants :
              /\ InReceiveAsset(i)
              /\ last.request.isMakers[i] =>
                    /\ last.Fees[i].Amount = Big(0)
                    /\ last.Receives[i].Amount = last.request.receiveAmounts[i].Amount
              /\ ~last.request.isMakers[i] =>
                    /\ ~BigLess(last.request.receiveAmounts[i].Amount,
                                CeilFee(last.request.receiveAmounts[i].Amount, 3))
                    /\ last.Receives[i].Amount
                          = BigSub(last.request.receiveAmounts[i].Amount,
                                   CeilFee(last.request.receiveAmounts[i].Amount, 3))
        /\ last.receiveAmounts = last.request.receiveAmounts

Total(amounts, assetId) == SumOf(amounts, assetId, Len(amounts))

\* some taker receives the asset
TakerOf(assetId) ==
    \E i \in Participants :
        /\ ~last.request.isMakers[i]
        /\ last.request.receiveAmounts[i].AssetId = assetId

\* price differential j is left as it was, or reduced for a taker of its asset
ReducedForTaker(j) ==
    /\ last.priceDiffs[j].AssetId = last.request.priceDiffs[j].AssetId
    /\ ~BigLess(last.request.priceDiffs[j].Amount, last.priceDiffs[j].Amount)
    /\ last.priceDiffs[j].Amount # last.request.priceDiffs[j].Amount
          => TakerOf(last.priceDiffs[j].AssetId)

\* what the call returns and leaves of an asset is what it was given of it:
\* the receives, the fees and the price differentials left
ConservedOf(assetId, receives) ==
    BigAdd(BigAdd(Total(last.Fees, assetId), Total(receives, assetId)),
           Total(last.priceDiffs, assetId))
        = BigAdd(Total(last.request.receiveAmounts, assetId),
                 Total(last.request.priceDiffs, assetId))

\* C29: Allocate conserves value per asset: the sum of Receives plus the sum
\* of Fees plus the price differentials left in priceDiffs after the call
\* equals the sum of receiveAmounts plus the price differentials before the
\* call; price differentials are only ever reduced by the fee charged on them
\* and are charged only for takers.
C29_ValueConserved ==
    last.op = "Allocate" =>
        /\ \A assetId \in Assets : ConservedOf(assetId, last.Receives)
        /\ Len(last.priceDiffs) = Len(last.request.priceDiffs)
        /\ \A j \in 1..Len(last.priceDiffs) : ReducedForTaker(j)

\* C29 witness: two takers receive the same asset and a price differential of
\* that asset has been charged.
C29_Witness ==
    /\ last.op = "Allocate"
    /\ \E i, k \in Participants :
          /\ i < k
          /\ ~last.request.isMakers[i] /\ ~last.request.isMakers[k]
          /\ last.request.receiveAmounts[i].AssetId
                = last.request.receiveAmounts[k].AssetId
          /\ \E j \in 1..Len(last.priceDiffs) :
                /\ last.priceDiffs[j].AssetId = last.request.receiveAmounts[i].AssetId
                /\ BigLess(last.priceDiffs[j].Amount, last.request.priceDiffs[j].Amount)

\* C30: the fees Allocate produces always pass Validate: for every
\* receiveAmounts, priceDiffs and isMakers, Validate(receiveAmounts, per-asset
\* sum of the Fees returned by Allocate) returns no error.
C30_AllocatedFeesAreValid ==
    last.op = "ValidateAllocated" => last.err = ""

\* the outputs the orders of a table rest on
UtxosIn(table) == {UtxoOf(o) : o \in RestingIn(table)}

\* the output spent by input i of the transaction returned
SpentAt(i) == <<last.tx.Inputs[i].SourceID, last.tx.Inputs[i].SourcePos>>

\* C31: for every ring validateTradePairs accepts, rings that list the same
\* trade pair more than once included, the orders NextMatchedTx removes from
\* the OrderTable are the orders spent by the inputs of the returned
\* transaction, and no order is spent by more than one input.
C31_RemovedAreSpent ==
    Succeeded =>
        /\ UtxosIn(last.table) \ UtxosIn(orderTable)
              = {SpentAt(i) : i \in 1..Len(last.tx.Inputs)}
        /\ \A i, j \in 1..Len(last.tx.Inputs) : SpentAt(i) = SpentAt(j) => i = j

\* the amount resting in the first k orders of a book
RECURSIVE BookAmount(_, _)
BookAmount(orders, k) ==
    IF k = 0 THEN 0 ELSE BookAmount(orders, k - 1) + orders[k].Utxo.Amount

\* the amount resting on the trade pairs of a ring, each pair counted once
RECURSIVE RestingAmount(_, _, _)
RestingAmount(table, tradePairs, i) ==
    IF i = 0
    THEN 0
    ELSE RestingAmount(table, tradePairs, i - 1)
            + (IF \E j \in 1..(i - 1) : tradePairs[j] = tradePairs[i]
               THEN 0
               ELSE BookAmount(table[tradePairs[i]], Len(table[tradePairs[i]])))

\* a step of the caller's loop: HasMatchedTx held and NextMatchedTx returned a
\* transaction
LoopStep ==
    /\ last'.op = "NextMatchedTx"
    /\ last'.err = ""
    /\ txCount' = txCount + 1
    /\ HasMatchedTx(orderTable, last'.tradePairs)

\* C32: matching makes progress: every successful NextMatchedTx of the loop
\* 'while HasMatchedTx(ring): NextMatchedTx(ring)' strictly decreases the total
\* amount resting on the ring's trade pairs, so the loop terminates.
C32_AmountDecreases ==
    [][LoopStep =>
          RestingAmount(orderTable', last'.tradePairs, Len(last'.tradePairs))
              < RestingAmount(orderTable, last'.tradePairs, Len(last'.tradePairs))]_vars

\* the amounts of one asset in the first k inputs or outputs, summed
RECURSIVE AmountOfAsset(_, _, _)
AmountOfAsset(entries, assetID, k) ==
    IF k = 0
    THEN 0
    ELSE AmountOfAsset(entries, assetID, k - 1)
            + (IF entries[k].AssetID = assetID THEN entries[k].Amount ELSE 0)

\* inputs of the asset minus the receive and change outputs of the asset
InputsLessOutputs(legs, assetID) ==
    WrapInt64(AmountOfAsset(legs.Inputs, assetID, Len(legs.Inputs))
                - AmountOfAsset(legs.Outputs, assetID, Len(legs.Outputs)))

\* the fee of an asset is what the legs leave of it and its maximum comes from
\* the leg offering it
FeeOfOwnLeg(legs, fees, i) ==
    /\ InputsLessOutputs(legs, legs.Inputs[i].AssetID) # 0
          <=> legs.Inputs[i].AssetID \in DOMAIN fees
    /\ legs.Inputs[i].AssetID \in DOMAIN fees =>
          /\ fees[legs.Inputs[i].AssetID].payableFeeAmount
                = InputsLessOutputs(legs, legs.Inputs[i].AssetID)
          /\ fees[legs.Inputs[i].AssetID].maxFeeAmount
                = CalcMaxFeeAmount(WordShouldPayAmount(i))

\* C33: CalcFeeFromMatchedTx attributes to each input the receive output of
\* its own leg, also when several legs name the same recipient program: for
\* every asset the returned payableFee equals the inputs of that asset minus
\* all receive and change outputs of that asset, and maxFeeAmount of an asset
\* is derived from the leg offering that asset.
C33_FeeOfOwnLeg ==
    Succeeded =>
        \A i \in Legs :
            FeeOfOwnLeg(LegsOf(last.tx), CalcFeeFromMatchedTx(LegsOf(last.tx)).fees, i)

\* two legs of the last ring pay the same recipient program
SameRecipient == \E i, j \in Legs : i < j /\ Recipient(i) = Recipient(j)


---------------------------------------------------------------------------
(* ConsensusResult: the votes and the coinbase rewards of a round *)

\* blocks of a voting round
RoundVoteBlockNums == 3

\* the heights the model applies blocks up to: the first block of the
\* second round
MaxHeight == RoundVoteBlockNums + 1

\* the largest uint64
MaxWord == UintMod - 1

\* a Go map from strings to uint64
EmptyMap == [k \in {} |-> 0]

\* m[key], zero when the key is missing
MapGet(m, key) == IF key \in DOMAIN m THEN m[key] ELSE 0

\* m[key] = value
MapSet(m, key, value) ==
    [k \in DOMAIN m \cup {key} |-> IF k = key THEN value ELSE m[k]]

\* delete(m, key)
MapDelete(m, key) == [k \in DOMAIN m \ {key} |-> m[k]]

\* checked.AddUint64: the sum, or not ok when it does not fit
AddUint64(a, b) ==
    IF a + b > MaxWord THEN [value |-> 0, ok |-> FALSE]
    ELSE [value |-> a + b, ok |-> TRUE]

\* checked.SubUint64: the difference, or not ok when it would be negative
SubUint64(a, b) ==
    IF a < b THEN [value |-> 0, ok |-> FALSE]
    ELSE [value |-> a - b, ok |-> TRUE]

\* consensus.BlockSubsidy: the subsidy of the block at a height
BlockSubsidy(height) == 1

\* arithmetic.CalculateTxFee: the fee of a transaction, or an error
CalculateTxFee(tx) == [fee |-> tx.Fee, err |-> tx.FeeOverflows]

\* block.Hash(): the hash commits to the height and the transactions
BlockHashOf(block) == <<block.Height, block.Transactions>>

CalcVoteSeq(blockHeight) ==
    IF blockHeight = 0 THEN 0
    ELSE ((blockHeight - 1) \div RoundVoteBlockNums) + 1

\* the sum of the fees of the transactions from the k-th on added to amount,
\* wrapping as uint64 does, or the error of the first fee that fails
RECURSIVE AddTxFees(_, _, _)
AddTxFees(amount, txs, k) ==
    IF k > Len(txs) THEN [amount |-> amount, err |-> ""]
    ELSE IF CalculateTxFee(txs[k]).err
         THEN [amount |-> 0, err |-> "calculate transaction fee"]
         ELSE AddTxFees((amount + CalculateTxFee(txs[k]).fee) % UintMod,
                        txs, k + 1)

CalCoinbaseReward(block) ==
    IF ~(Len(block.Transactions) > 0
         /\ Len(block.Transactions[1].Outputs) > 0)
    THEN [Amount |-> 0, ControlProgram |-> "",
          err |-> "not found coinbase receiver"]
    ELSE LET fees == AddTxFees(BlockSubsidy(block.Height),
                               block.Transactions, 1)
         IN  [Amount |-> fees.amount,
              ControlProgram |-> block.Transactions[1].Outputs[1].ControlProgram,
              err |-> fees.err]

\* the result c as the call leaves it, and the error it returns
AttachCoinbaseReward(c, block) ==
    LET reward == CalCoinbaseReward(block)
        start == IF block.Height % RoundVoteBlockNums = 1
                 THEN EmptyMap ELSE c.CoinbaseReward
        sum == AddUint64(MapGet(start, reward.ControlProgram), reward.Amount)
    IN  IF reward.err # "" THEN [c |-> c, err |-> reward.err]
        ELSE [c |-> [c EXCEPT !.CoinbaseReward =
                                  MapSet(start, reward.ControlProgram, sum.value)],
              err |-> IF sum.ok THEN "" ELSE "ErrOverflow"]

\* the rewards the outputs of the coinbase transaction after the first pay,
\* from the k-th output on, written into the map
RECURSIVE RestoreRewards(_, _, _)
RestoreRewards(rewards, outputs, k) ==
    IF k > Len(outputs) THEN rewards
    ELSE RestoreRewards(MapSet(rewards, outputs[k].ControlProgram,
                               outputs[k].Amount), outputs, k + 1)

DetachCoinbaseReward(c, block) ==
    LET restored == IF block.Height % RoundVoteBlockNums = 0
                    THEN RestoreRewards(c.CoinbaseReward,
                                        block.Transactions[1].Outputs, 2)
                    ELSE c.CoinbaseReward
        reward == CalCoinbaseReward(block)
        diff == SubUint64(MapGet(restored, reward.ControlProgram), reward.Amount)
        written == MapSet(restored, reward.ControlProgram, diff.value)
    IN  IF reward.err # ""
        THEN [c |-> [c EXCEPT !.CoinbaseReward = restored], err |-> reward.err]
        ELSE IF ~diff.ok
        THEN [c |-> [c EXCEPT !.CoinbaseReward = written], err |-> "ErrOverflow"]
        ELSE [c |-> [c EXCEPT !.CoinbaseReward =
                                  IF diff.value = 0
                                  THEN MapDelete(written, reward.ControlProgram)
                                  ELSE written],
              err |-> ""]

\* the veto inputs of a transaction, then its vote outputs, as the changes
\* of the vote counts that attaching the transaction makes
SelectSeqOf(entries, type) == SelectSeq(entries, LAMBDA e : e.Type = type)

VoteChanges(tx, attach) ==
    [i \in 1..Len(SelectSeqOf(tx.Inputs, "veto")) |->
        [Vote |-> SelectSeqOf(tx.Inputs, "veto")[i].Vote,
         Amount |-> SelectSeqOf(tx.Inputs, "veto")[i].Amount,
         add |-> ~attach, deleteWhenZero |-> attach]]
    \o
    [i \in 1..Len(SelectSeqOf(tx.Outputs, "vote")) |->
        [Vote |-> SelectSeqOf(tx.Outputs, "vote")[i].Vote,
         Amount |-> SelectSeqOf(tx.Outputs, "vote")[i].Amount,
         add |-> attach, deleteWhenZero |-> ~attach]]

\* the changes of the transactions in the order the loop visits them
RECURSIVE BlockVoteChanges(_, _, _)
BlockVoteChanges(txs, attach, k) ==
    IF k > Len(txs) THEN <<>>
    ELSE IF attach
         THEN VoteChanges(txs[k], attach) \o BlockVoteChanges(txs, attach, k + 1)
         ELSE BlockVoteChanges(txs, attach, k + 1) \o VoteChanges(txs[k], attach)

\* the vote counts after the changes from the k-th on, stopping at the first
\* checked operation that fails, whose result is already in the map
RECURSIVE ChangeVotes(_, _, _)
ChangeVotes(votes, changes, k) ==
    IF k > Len(changes) THEN [NumOfVote |-> votes, ok |-> TRUE]
    ELSE LET change == changes[k]
             r == IF change.add
                  THEN AddUint64(MapGet(votes, change.Vote), change.Amount)
                  ELSE SubUint64(MapGet(votes, change.Vote), change.Amount)
             written == MapSet(votes, change.Vote, r.value)
         IN  IF ~r.ok THEN [NumOfVote |-> written, ok |-> FALSE]
             ELSE ChangeVotes(IF change.deleteWhenZero /\ r.value = 0
                              THEN MapDelete(written, change.Vote)
                              ELSE written,
                              changes, k + 1)

ApplyBlock(c, block) ==
    LET attached == AttachCoinbaseReward(c, block)
        voted == ChangeVotes(attached.c.NumOfVote,
                             BlockVoteChanges(block.Transactions, TRUE, 1), 1)
    IN  IF c.BlockHash # block.PreviousBlockHash
        THEN [c |-> c,
              err |-> "block parent hash is not equals last block hash of vote result"]
        ELSE IF attached.err # "" THEN attached
        ELSE IF ~voted.ok
        THEN [c |-> [attached.c EXCEPT !.NumOfVote = voted.NumOfVote],
              err |-> "ErrOverflow"]
        ELSE [c |-> [attached.c EXCEPT !.NumOfVote = voted.NumOfVote,
                                       !.BlockHash = BlockHashOf(block),
                                       !.BlockHeight = block.Height,
                                       !.Seq = CalcVoteSeq(block.Height)],
              err |-> ""]

DetachBlock(c, block) ==
    LET detached == DetachCoinbaseReward(c, block)
        voted == ChangeVotes(detached.c.NumOfVote,
                             BlockVoteChanges(block.Transactions, FALSE, 1), 1)
    IN  IF c.BlockHash # BlockHashOf(block)
        THEN [c |-> c,
              err |-> "block hash is not equals last block hash of vote result"]
        ELSE IF detached.err # "" THEN detached
        ELSE IF ~voted.ok
        THEN [c |-> [detached.c EXCEPT !.NumOfVote = voted.NumOfVote],
              err |-> "ErrOverflow"]
        ELSE [c |-> [detached.c EXCEPT !.NumOfVote = voted.NumOfVote,
                                       !.BlockHash = block.PreviousBlockHash,
                                       !.BlockHeight = block.Height - 1,
                                       !.Seq = CalcVoteSeq(block.Height - 1)],
              err |-> ""]

\* variant: the greater amount first
SortByAmountGreater(a, b) == a.Amount > b.Amount

\* SortByAmount.Less
SortByAmountLess(a, b) == a.Amount < b.Amount

\* the lists sort.Sort may leave of the entries of the map, which the loop
\* visits in any order: every order in which no reward is less than one
\* before it
SortedRewards(rewards) ==
    {list \in [1..Cardinality(DOMAIN rewards) ->
                  {[Amount |-> rewards[p], ControlProgram |-> p] :
                      p \in DOMAIN rewards}] :
        /\ \A i, j \in DOMAIN list : list[i] = list[j] => i = j
        /\ \A i, j \in DOMAIN list :
              i < j => ~SortByAmountLess(list[j], list[i])}

\* the lists GetCoinbaseRewards may return
GetCoinbaseRewards(c, blockHeight) ==
    IF blockHeight % RoundVoteBlockNums # 0 THEN {<<>>}
    ELSE SortedRewards(c.CoinbaseReward)

---------------------------------------------------------------------------
(* The consensus result as a state machine: blocks are applied on the
   result from the genesis block on, the block of the last call is detached,
   and the rewards are read *)

Pubkeys == {"k1"}

ControlPrograms == {"r1", "r2"}

Output(type, vote, amount, program) ==
    [Type |-> type, Vote |-> vote, Amount |-> amount, ControlProgram |-> program]

Input(type, vote, amount) == [Type |-> type, Vote |-> vote, Amount |-> amount]

Tx(inputs, outputs, fee, feeOverflows) ==
    [Inputs |-> inputs, Outputs |-> outputs, Fee |-> fee,
     FeeOverflows |-> feeOverflows]

\* the transactions of a block after the coinbase transaction: none, a vote,
\* a vote that overflows the count, a veto, a transaction that pays a fee,
\* one whose fee overflows the reward and one whose fee cannot be calculated
BlockTxs ==
    {<<>>}
    \cup {<<Tx(<<Input("spend", "", 0)>>, <<Output("vote", k, a, "")>>, 0, FALSE)>> :
             k \in Pubkeys, a \in {1, MaxWord}}
    \cup {<<Tx(<<Input("veto", k, 1)>>, <<Output("plain", "", 0, "")>>, 0, FALSE)>> :
             k \in Pubkeys}
    \cup {<<Tx(<<Input("spend", "", 0)>>, <<Output("plain", "", 0, "")>>, fee, FALSE)>> :
             fee \in {MaxWord - 1}}
    \cup {<<Tx(<<Input("spend", "", 0)>>, <<Output("plain", "", 0, "")>>, 0, TRUE)>>}

\* the outputs that pay the rewards of a list
PayOutputs(rewards) ==
    [i \in DOMAIN rewards |->
        Output("plain", "", rewards[i].Amount, rewards[i].ControlProgram)]

\* the coinbase transactions of a block on result c: to no receiver, or to a
\* receiver, paying nothing else or the rewards of the result in an order by
\* amount
CoinbaseTxs(c) ==
    {Tx(<<Input("coinbase", "", 0)>>, <<>>, 0, FALSE)}
    \cup {Tx(<<Input("coinbase", "", 0)>>,
             <<Output("plain", "", 0, receiver)>> \o PayOutputs(rewards),
             0, FALSE) :
            receiver \in ControlPrograms,
            rewards \in {<<>>} \cup SortedRewards(c.CoinbaseReward)}

\* the hash of a block that no result is on
OtherHash == <<-1, <<>>>>

\* the blocks offered to a result: of the next height, on its block or on
\* another one
BlocksOn(c) ==
    {[Height |-> c.BlockHeight + 1, PreviousBlockHash |-> previous,
      Transactions |-> <<coinbase>> \o txs] :
        previous \in {c.BlockHash, OtherHash},
        coinbase \in CoinbaseTxs(c), txs \in BlockTxs}

NoBlock ==
    [Height |-> 0, PreviousBlockHash |-> OtherHash, Transactions |-> <<>>]

\* the engine while only the consensus result runs
EngineIdle ==
    /\ orderTable = [tp \in TradePairs |-> <<>>]
    /\ txCount = 0
    /\ calls = NoCalls

InitConsensus ==
    /\ consensusResult = NoResult
    /\ last = [op |-> "none", block |-> NoBlock, before |-> NoResult,
               err |-> "", applied |-> <<>>, blockHeight |-> 0,
               rewards |-> <<>>]
    /\ keeper = NoKeeper
    /\ manager = NoManager
    /\ EngineIdle

\* a call on the consensus result that returned r for a block; applied is
\* the result before the block was applied, when the block of a successful
\* ApplyBlock is the one detached
ReturnedResult(op, block, r, applied) ==
    /\ consensusResult' = r.c
    /\ last' = [op |-> op, block |-> block, before |-> consensusResult,
                err |-> r.err, applied |-> applied, blockHeight |-> 0,
                rewards |-> <<>>]
    /\ UNCHANGED <<keeper, manager>>
    /\ UNCHANGED engineVars

\* a result that a call has left with an error is not built on
CallApplyBlock(block) ==
    /\ last.err = ""
    /\ consensusResult.BlockHeight < MaxHeight
    /\ ReturnedResult("ApplyBlock", block, ApplyBlock(consensusResult, block),
                      <<>>)

\* the block of the last call is detached
CallDetachBlock ==
    /\ last.op \in {"ApplyBlock", "DetachBlock"}
    /\ ReturnedResult("DetachBlock", last.block,
                      DetachBlock(consensusResult, last.block),
                      IF last.op = "ApplyBlock" /\ last.err = ""
                      THEN <<last.before>> ELSE <<>>)

CallGetCoinbaseRewards(blockHeight, rewards) ==
    /\ last.err = ""
    /\ last' = [op |-> "GetCoinbaseRewards", block |-> NoBlock,
                before |-> consensusResult, err |-> "", applied |-> <<>>,
                blockHeight |-> blockHeight, rewards |-> rewards]
    /\ UNCHANGED nodeVars
    /\ UNCHANGED engineVars

NextConsensus ==
    \/ \E block \in BlocksOn(consensusResult) : CallApplyBlock(block)
    \/ CallDetachBlock
    \/ \E blockHeight \in {consensusResult.BlockHeight, RoundVoteBlockNums} :
          \E rewards \in GetCoinbaseRewards(consensusResult, blockHeight) :
             CallGetCoinbaseRewards(blockHeight, rewards)

SpecConsensus == InitConsensus /\ [][NextConsensus]_vars

\* C34: a DetachBlock of the block that ApplyBlock has just applied succeeds
\* and restores Seq, NumOfVote, CoinbaseReward, BlockHash and BlockHeight
C34_DetachUndoesApply ==
    (last.op = "DetachBlock" /\ last.applied # <<>>) =>
        /\ last.err = ""
        /\ consensusResult = last.applied[1]

\* the block of a successful ApplyBlock has been detached
Undone == last.op = "DetachBlock" /\ last.applied # <<>>

\* every entry of a map is positive
Positive(m) == \A k \in DOMAIN m : m[k] > 0

\* the rewards of a whole round are lost: the first block of the next round
\* is applied and detached, both without an error
C34_RoundLost ==
    /\ Undone
    /\ last.err = ""
    /\ last.block.Height = RoundVoteBlockNums + 1
    /\ last.applied[1].CoinbaseReward # EmptyMap
    /\ Positive(last.applied[1].CoinbaseReward)
    /\ consensusResult.CoinbaseReward = EmptyMap
    /\ consensusResult.NumOfVote = last.applied[1].NumOfVote

\* the rewards have been read for a height
Read == last.op = "GetCoinbaseRewards"

\* the list holds exactly one reward for every entry of the map
OnePerEntry(list, rewards) ==
    /\ Len(list) = Cardinality(DOMAIN rewards)
    /\ \A p \in DOMAIN rewards :
          \E i \in DOMAIN list :
             list[i] = [Amount |-> rewards[p], ControlProgram |-> p]

\* C35: GetCoinbaseRewards returns the empty list for a height that is no
\* multiple of RoundVoteBlockNums, and otherwise one reward for every entry
\* of CoinbaseReward in an order of non-decreasing amounts; the result is
\* left as it was
C35_RewardsSortedByAmount ==
    Read =>
        /\ last.blockHeight % RoundVoteBlockNums # 0 => last.rewards = <<>>
        /\ last.blockHeight % RoundVoteBlockNums = 0 =>
              /\ OnePerEntry(last.rewards, consensusResult.CoinbaseReward)
              /\ \A i, j \in DOMAIN last.rewards :
                    i < j => last.rewards[i].Amount <= last.rewards[j].Amount
        /\ consensusResult = last.before

\* two receivers with different rewards have been read at the end of a round
C35_Witness ==
    /\ Read
    /\ last.blockHeight = RoundVoteBlockNums
    /\ consensusResult.BlockHeight = RoundVoteBlockNums
    /\ Len(last.rewards) = 2
    /\ last.rewards[1].Amount < last.rewards[2].Amount

\* C36: GetCoinbaseRewards is deterministic: every call on the result for
\* the height returns the list the last call returned
C36_OneOrder ==
    Read => GetCoinbaseRewards(consensusResult, last.blockHeight) = {last.rewards}

\* C37: an ApplyBlock or DetachBlock that returns an error leaves NumOfVote,
\* CoinbaseReward, BlockHash, BlockHeight and Seq as they were
C37_ErrorLeavesResult ==
    (last.op \in {"ApplyBlock", "DetachBlock"} /\ last.err # "") =>
        consensusResult = last.before

\* the errors after which the result is as before: the hash of the block
\* does not match, or the block has no coinbase receiver
C37_Unchanged ==
    /\ last.op \in {"ApplyBlock", "DetachBlock"}
    /\ last.err # ""
    /\ consensusResult = last.before

---------------------------------------------------------------------------
(* mainchainKeeper: the federation's follower of the main chain *)

\* cfg.Confirmations
Confirmations == 1

\* the height the stored chain row is followed up to
MaxStoredHeight == 3

\* transactions of a block of the upstream node
MaxBlockTxs == 1

\* the database as the keeper sees it: the row of its chain, the assets, the
\* cross-chain transactions and the cross-chain requests
Database(k) ==
    [chain |-> k.chain, assets |-> k.assets,
     crossTransactions |-> k.crossTransactions, reqs |-> k.reqs]

\* block.Hash() of a block of the upstream chain
UpstreamHash(block) == <<block.Height, block.Fork>>

\* processIssuance: the asset of an issuance input is created unless the
\* store has it; the row is created through m.db, outside the transaction
IssuanceOps(tx) ==
    [i \in DOMAIN tx.Issues |->
        [kind |-> "createAsset", asset |-> tx.Issues[i], inTx |-> FALSE]]

\* isDepositTx and processDepositTx with createCrossChainReqs: the asset is
\* read, the cross-chain transaction is created and a request for its
\* federation output
DepositOps(block, txIndex) ==
    IF block.Transactions[txIndex].Kind # "deposit" THEN <<>>
    ELSE <<[kind |-> "read", inTx |-> FALSE],
           [kind |-> "createCrossTransaction", inTx |-> TRUE,
            row |-> [SourceTxHash |-> <<block.Height, txIndex>>,
                     SourceBlockHeight |-> block.Height,
                     DestBlockHeight |-> 0, Status |-> "pending"]],
           [kind |-> "read", inTx |-> FALSE],
           [kind |-> "createReq", inTx |-> TRUE,
            row |-> [CrossTransactionID |-> <<block.Height, txIndex>>,
                     SourcePos |-> 0]]>>

\* isWithdrawalTx and processWithdrawalTx: the asset is read and the pending
\* cross-chain transaction of the side chain is completed
WithdrawalOps(block, txIndex) ==
    IF block.Transactions[txIndex].Kind # "withdrawal" THEN <<>>
    ELSE <<[kind |-> "read", inTx |-> FALSE],
           [kind |-> "completeCrossTransaction", inTx |-> TRUE,
            source |-> block.Transactions[txIndex].SourceTxHash,
            height |-> block.Height]>>

\* processBlock: the database operations of the transactions from the k-th on
RECURSIVE processBlock(_, _)
processBlock(block, k) ==
    IF k > Len(block.Transactions) THEN <<>>
    ELSE IssuanceOps(block.Transactions[k]) \o DepositOps(block, k)
         \o WithdrawalOps(block, k) \o processBlock(block, k + 1)

\* variant: the row is moved past the height of the block
processChainInfoSkipping(block) ==
    <<[kind |-> "updateChain", inTx |-> TRUE,
       previous |-> block.PreviousBlockHash,
       chain |-> [BlockHash |-> UpstreamHash(block),
                  BlockHeight |-> block.Height + 1]]>>

\* processChainInfo: the chain rows on the previous block are moved to the
\* block
processChainInfo(block) ==
    <<[kind |-> "updateChain", inTx |-> TRUE,
       previous |-> block.PreviousBlockHash,
       chain |-> [BlockHash |-> UpstreamHash(block),
                  BlockHeight |-> block.Height]]>>

\* the database after one operation that did not fail, and the error the
\* keeper makes of its result
ApplyOp(db, op) ==
    CASE op.kind = "createAsset" ->
            [db |-> IF op.asset \in db.assets THEN db
                    ELSE [db EXCEPT !.assets = @ \cup {op.asset}],
             err |-> ""]
      [] op.kind = "createCrossTransaction" ->
            [db |-> [db EXCEPT !.crossTransactions = @ \cup {op.row}],
             err |-> ""]
      [] op.kind = "createReq" ->
            [db |-> [db EXCEPT !.reqs = @ \cup {op.row}], err |-> ""]
      [] op.kind = "completeCrossTransaction" ->
            [db |-> [db EXCEPT !.crossTransactions =
                        {IF row.SourceTxHash = op.source /\ row.Status = "pending"
                         THEN [row EXCEPT !.Status = "completed",
                                          !.DestBlockHeight = op.height]
                         ELSE row : row \in @}],
             err |-> ""]
      [] op.kind = "updateChain" ->
            IF db.chain.BlockHash = op.previous
            THEN [db |-> [db EXCEPT !.chain = op.chain], err |-> ""]
            ELSE [db |-> db, err |-> "ErrInconsistentDB"]
      [] OTHER -> [db |-> db, err |-> ""]

\* an operation that does nothing when the row it would create is there
IsSkipped(db, op) == op.kind = "createAsset" /\ op.asset \in db.assets

\* the operations from the k-th on run on the database: committed is what
\* the other connections see, working is what the transaction sees; done
\* counts the operations sent to the database, of which the one numbered
\* fault fails; applied is the k-th operation applied to working
RECURSIVE RunOps(_, _, _, _, _, _)
RunOp(committed, working, ops, k, done, fault, applied) ==
    IF done + 1 = fault
    THEN [committed |-> committed, working |-> working, done |-> done + 1,
          err |-> "database error"]
    ELSE IF applied.err # ""
    THEN [committed |-> committed, working |-> working, done |-> done + 1,
          err |-> applied.err]
    ELSE RunOps(IF ops[k].inTx THEN committed ELSE ApplyOp(committed, ops[k]).db,
                applied.db, ops, k + 1, done + 1, fault)

RunOps(committed, working, ops, k, done, fault) ==
    IF k > Len(ops) THEN [committed |-> committed, working |-> working,
                          done |-> done, err |-> ""]
    ELSE IF IsSkipped(working, ops[k])
    THEN RunOps(committed, working, ops, k + 1, done, fault)
    ELSE RunOp(committed, working, ops, k, done, fault,
               ApplyOp(working, ops[k]))

\* the end of the transaction after the operations ran: it is committed, or
\* rolled back on the first error; the commit is the operation after the
\* last
EndTransaction(ran, fault) ==
    IF ran.err # "" THEN [db |-> ran.committed, err |-> ran.err]
    ELSE IF ran.done + 1 = fault
    THEN [db |-> ran.committed, err |-> "commit error"]
    ELSE [db |-> ran.working, err |-> ""]

\* tryAttachBlock: the block is processed and the chain row moved inside one
\* transaction
tryAttachBlock(db, block, fault) ==
    EndTransaction(RunOps(db, db,
                          processBlock(block, 1) \o processChainInfo(block),
                          1, 0, fault),
                   fault)

\* syncBlock after tryAttachBlock returned
AfterAttach(tried) ==
    [db |-> tried.db, isUpdate |-> tried.err = "", err |-> tried.err,
     fatal |-> FALSE, attached |-> TRUE]

\* syncBlock on the answers of the upstream node: its block count, and the
\* block it returns for the height after the stored one
syncBlock(db, node, fault) ==
    IF node.countErr THEN [db |-> db, isUpdate |-> FALSE, err |-> "GetBlockCount",
                           fatal |-> FALSE, attached |-> FALSE]
    ELSE IF node.height <= db.chain.BlockHeight + Confirmations
    THEN [db |-> db, isUpdate |-> FALSE, err |-> "", fatal |-> FALSE,
          attached |-> FALSE]
    ELSE IF node.blockErr
    THEN [db |-> db, isUpdate |-> FALSE, err |-> "GetBlockByHeight",
          fatal |-> FALSE, attached |-> FALSE]
    ELSE IF node.block.PreviousBlockHash # db.chain.BlockHash
    THEN [db |-> db, isUpdate |-> FALSE, err |-> "fail on block hash mismatch",
          fatal |-> TRUE, attached |-> FALSE]
    ELSE AfterAttach(tryAttachBlock(db, node.block, fault))

---------------------------------------------------------------------------
(* The keeper as a state machine: Run calls syncBlock again and again, on
   whatever the upstream node answers and with or without a failure of the
   database *)

KeeperAssets == {"asset1"}

\* the cross-chain transaction of the side chain that a withdrawal completes
SideChainTxHash == <<0, 1>>

KeeperTx(issues, kind, source) ==
    [Issues |-> issues, Kind |-> kind, SourceTxHash |-> source]

\* a transaction that issues an asset, a deposit and a withdrawal
KeeperTxs ==
    {KeeperTx(<<a>>, "plain", <<>>) : a \in KeeperAssets}
    \cup {KeeperTx(<<>>, "deposit", <<>>),
          KeeperTx(<<>>, "withdrawal", SideChainTxHash)}

Forks == {"a", "b"}

\* the blocks the upstream node has at a height on a block of the height
\* below
UpstreamBlocks(height, previous) ==
    {[Height |-> height, PreviousBlockHash |-> <<height - 1, previous>>,
      Fork |-> "a", Transactions |-> txs] :
        txs \in SeqsOf(KeeperTxs, 1, MaxBlockTxs)}

\* an answer of the upstream node to GetBlockCount and to
\* GetBlockByHeight, which is the block of that height or an error
NodeAnswer(count, fails, block) ==
    [height |-> count, countErr |-> fails = "count",
     blockErr |-> fails = "block", block |-> block]

\* the answers after which no block is attached: the count fails or is
\* just not enough, the block cannot be fetched or decoded, or it is on
\* another block than the stored one
UnattachedAnswers(height) ==
    LET block == CHOOSE b \in UpstreamBlocks(height, "a") : TRUE
    IN  {NodeAnswer(height + Confirmations, "count", block),
         NodeAnswer(height - 1 + Confirmations, "", block),
         NodeAnswer(height + Confirmations, "block", block),
         NodeAnswer(height + Confirmations, "",
                    CHOOSE b \in UpstreamBlocks(height, "b") : TRUE)}

\* the answers with a block of the height on the stored block
BlockAnswers(height) ==
    {NodeAnswer(height + Confirmations, "", block) :
        block \in UpstreamBlocks(height, "a")}

\* the operations of tryAttachBlock on a block, and the commit
Faults(block) ==
    0..(Len(processBlock(block, 1) \o processChainInfo(block)) + 1)

InitKeeper ==
    /\ keeper = [pc |-> "running",
                 chain |-> [BlockHash |-> <<0, "a">>, BlockHeight |-> 0],
                 assets |-> {},
                 crossTransactions |->
                     {[SourceTxHash |-> SideChainTxHash, SourceBlockHeight |-> 0,
                       DestBlockHeight |-> 0, Status |-> "pending"]},
                 reqs |-> {}]
    /\ last = [op |-> "none", err |-> "", isUpdate |-> FALSE,
               attached |-> FALSE, height |-> 0,
               block |-> CHOOSE b \in UpstreamBlocks(1, "a") : TRUE,
               before |-> Database(NoKeeper)]
    /\ consensusResult = NoResult
    /\ manager = NoManager
    /\ EngineIdle

\* the keeper and the caller's view after syncBlock returned r; a fatal log
\* ends the process
Synced(node, r) ==
    /\ keeper' = [pc |-> IF r.fatal THEN "exited" ELSE "running",
                  chain |-> r.db.chain, assets |-> r.db.assets,
                  crossTransactions |-> r.db.crossTransactions,
                  reqs |-> r.db.reqs]
    /\ last' = [op |-> "syncBlock", err |-> r.err, isUpdate |-> r.isUpdate,
                attached |-> r.attached, height |-> node.height,
                block |-> node.block, before |-> Database(keeper)]
    /\ UNCHANGED <<consensusResult, manager>>
    /\ UNCHANGED engineVars

\* one call of syncBlock by Run
CallSyncBlock(node, fault) ==
    /\ keeper.pc = "running"
    /\ keeper.chain.BlockHeight < MaxStoredHeight
    /\ Synced(node, syncBlock(Database(keeper), node, fault))

NextKeeper ==
    \/ \E node \in UnattachedAnswers(keeper.chain.BlockHeight + 1) :
          CallSyncBlock(node, 0)
    \/ \E node \in BlockAnswers(keeper.chain.BlockHeight + 1) :
          \E fault \in Faults(node.block) : CallSyncBlock(node, fault)

SpecKeeper == InitKeeper /\ [][NextKeeper]_vars

\* tryAttachBlock has run in the last call of syncBlock
Attached == last.op = "syncBlock" /\ last.attached

\* C38: tryAttachBlock is all-or-nothing: after an error the database holds
\* the assets, cross-chain transactions, requests and chain row it held
\* before, and after a success the rows the block makes
C38_AllOrNothing ==
    Attached =>
        IF last.err # "" THEN Database(keeper) = last.before
        ELSE Database(keeper) = RunOps(last.before, last.before,
                                       processBlock(last.block, 1)
                                       \o processChainInfo(last.block),
                                       1, 0, 0).working

\* C39: syncBlock moves the stored chain row only when the upstream height is
\* above the stored height by more than Confirmations, and then to the hash
\* and height of the block of the next height on the stored block; otherwise
\* the row stays
C39_NextBlockOnly ==
    last.op = "syncBlock" =>
        IF last.isUpdate
        THEN /\ last.err = ""
             /\ last.height > last.before.chain.BlockHeight + Confirmations
             /\ last.block.Height = last.before.chain.BlockHeight + 1
             /\ last.block.PreviousBlockHash = last.before.chain.BlockHash
             /\ keeper.chain = [BlockHash |-> UpstreamHash(last.block),
                                BlockHeight |-> last.before.chain.BlockHeight + 1]
        ELSE keeper.chain = last.before.chain

\* the row has moved to the second block
C39_Witness ==
    /\ last.op = "syncBlock"
    /\ last.isUpdate
    /\ keeper.chain.BlockHeight = 2

---------------------------------------------------------------------------
(* Manager: the two broadcast loops of the consensus messages *)

\* events posted to the dispatcher
MaxEvents == 3

\* an event of the dispatcher: whether its data has the type the loop
\* expects, and whether the message can be built from it (NewBlockProposeMsg
\* for a proposed block, chain.GetHeaderByHash for a signature)
Events(id) ==
    {[id |-> id, typeOk |-> typeOk, buildOk |-> buildOk] :
        typeOk \in BOOLEAN, buildOk \in BOOLEAN}

InitManager ==
    /\ manager = NoManager
    /\ last = [op |-> "none", err |-> ""]
    /\ consensusResult = NoResult
    /\ keeper = NoKeeper
    /\ EngineIdle

\* a step of the manager
ManagerStep(next) ==
    /\ manager' = next
    /\ UNCHANGED <<consensusResult, keeper, last>>
    /\ UNCHANGED engineVars

\* Start: both loops are spawned
Start ==
    /\ ~manager.started
    /\ ManagerStep([manager EXCEPT !.started = TRUE,
                                   !.loops = [l \in Loops |->
                                                [@[l] EXCEPT !.pc = "spawned"]]])

\* Stop: the quit channel is closed
Stop ==
    /\ manager.started
    /\ ~manager.quit
    /\ ManagerStep([manager EXCEPT !.quit = TRUE])

\* the loop subscribes to its events, or returns when that fails
Subscribe(l, ok) ==
    /\ manager.loops[l].pc = "spawned"
    /\ ManagerStep([manager EXCEPT
                       !.loops[l].pc = IF ok THEN "running" ELSE "returned",
                       !.loops[l].stoppedBy = IF ok THEN "" ELSE "subscribe"])

\* the dispatcher delivers an event on the subscription of a loop
Post(l, event) ==
    /\ manager.loops[l].pc = "running"
    /\ manager.posted < MaxEvents
    /\ event.id = manager.posted + 1
    /\ ManagerStep([manager EXCEPT !.posted = @ + 1,
                                   !.loops[l].pending = Append(@, event)])

\* the loop after it has received an event; broadcastOk is the result of
\* peers.BroadcastMsg
Received(l, loop, event, broadcastOk) ==
    IF ~event.typeOk THEN loop
    ELSE IF ~event.buildOk
    THEN [loop EXCEPT !.pc = "returned", !.stoppedBy = "build"]
    ELSE IF broadcastOk \/ l = "blockProposeMsg"
    THEN [loop EXCEPT !.handed = @ \cup {event.id}]
    ELSE [loop EXCEPT !.handed = @ \cup {event.id}, !.pc = "returned",
                      !.stoppedBy = "broadcast"]

\* the select of a loop takes the event of its subscription
Receive(l, broadcastOk) ==
    /\ manager.loops[l].pc = "running"
    /\ manager.loops[l].pending # <<>>
    /\ ManagerStep([manager EXCEPT
                       !.loops[l] =
                           Received(l, [@ EXCEPT !.pending = Tail(@)],
                                    Head(manager.loops[l].pending),
                                    broadcastOk)])

\* the select of a loop takes the closed quit channel
Quit(l) ==
    /\ manager.loops[l].pc = "running"
    /\ manager.quit
    /\ ManagerStep([manager EXCEPT !.loops[l].pc = "returned",
                                   !.loops[l].stoppedBy = "quit"])

NextManager ==
    \/ Start
    \/ Stop
    \/ \E l \in Loops, ok \in BOOLEAN : Subscribe(l, ok)
    \/ \E l \in Loops : \E event \in Events(manager.posted + 1) : Post(l, event)
    \/ \E l \in Loops, broadcastOk \in BOOLEAN : Receive(l, broadcastOk)
    \/ \E l \in Loops : Quit(l)

SpecManager == InitManager /\ [][NextManager]_vars

\* the loops run whenever they can: a spawned loop subscribes, a running one
\* receives the event that waits, and a select with the quit channel closed
\* takes it in the end
FairManager ==
    \A l \in Loops :
        /\ WF_vars(\E ok \in BOOLEAN : Subscribe(l, ok))
        /\ WF_vars(\E broadcastOk \in BOOLEAN : Receive(l, broadcastOk))
        /\ WF_vars(Quit(l))

SpecManagerFair == SpecManager /\ FairManager

\* the event waits on the subscription of the loop, and a message can be
\* built from it
Waits(l, id) ==
    \E i \in DOMAIN manager.loops[l].pending :
       /\ manager.loops[l].pending[i].id = id
       /\ manager.loops[l].pending[i].typeOk
       /\ manager.loops[l].pending[i].buildOk

\* C40: no failure to build or to broadcast a message stops a broadcast
\* loop: a subscribed loop returns only when Stop has closed the quit
\* channel, every event delivered on its subscription before that is handed
\* to the peer set, and after Stop both loops return
C40_LoopsRunUntilStop ==
    \A l \in Loops :
        /\ [](manager.loops[l].pc = "returned" =>
                 manager.loops[l].stoppedBy \in {"quit", "subscribe"})
        /\ \A id \in 1..MaxEvents :
              Waits(l, id) ~> (id \in manager.loops[l].handed \/ manager.quit)
        /\ manager.quit ~> manager.loops[l].pc \in {"idle", "returned"}

\* a loop that has returned because a message could not be built or
\* broadcast, before any Stop
StoppedByFailure ==
    \E l \in Loops :
        /\ manager.loops[l].pc = "returned"
        /\ manager.loops[l].stoppedBy \in {"build", "broadcast"}
        /\ ~manager.quit

\* after Stop both loops return
C40_StopTerminates ==
    \A l \in Loops :
        manager.quit ~> manager.loops[l].pc \in {"idle", "returned"}

=============================================================================
